---- MODULE Spec2Model ----
(***************************************************************************)
(* WiFi-SDCF: the block-read stack of the WiFi@SDCF card client.           *)
(*                                                                         *)
(* The model follows Node's run-to-completion scheduling: a timer callback *)
(* or a datagram handler (a macrotask) runs only when the microtask queue  *)
(* is empty, and the continuations of settled promises (the microtasks)    *)
(* run in FIFO order before the next macrotask.                            *)
(***************************************************************************)
EXTENDS Integers, Sequences, FiniteSets, TLC

(***************************************************************************)
(* Bounds of the model.                                                    *)
(***************************************************************************)
MaxReads == 3          \* readBinaryData calls issued in one behaviour
MaxPayload == 1        \* a datagram off the network carries 0..MaxPayload bytes

(***************************************************************************)
(* Program constants.                                                      *)
(***************************************************************************)
InitialTransferId == 93

VARIABLES
    transferId,     \* Card.transferId
    dataPromises,   \* Card.dataPromises: transfer ID -> ResolvablePromise
    reads,          \* the frames of the readBinaryData calls, by transfer ID
    timers,         \* the armed READ_TIMEOUT timers, in arming order
    sent,           \* the request datagrams sent to the card, in order
    microtasks,     \* the promise-job queue of the event loop
    lastMsg,        \* history: what Card.onMessage did with the last datagram
    disk,           \* the storage of the card
    volume,         \* the fields of the FAT32Adapter
    initialised,    \* FAT32Adapter.initialised, the one-shot latch
    waiters,        \* the tasks that await the latch, in the order they began
    tasks,          \* the calls of the volume's and the MBR reader's operations
    udpServer,      \* UdpServer: subscribers and allSubscribers
    discovery,      \* the NetworkDiscovery instance and the interval timers it set
    cards,          \* the Cards made by the NetworkDiscovery, in order of creation
    folder,         \* the files of the directory on the card that is watched
    directory,      \* the Directory: entries and the list calls in progress
    watcher,        \* the WatchDirectory and the interval timers it set
    clock           \* Date.now()

cardVars == <<transferId, dataPromises, reads, timers, sent, lastMsg>>
discVars == <<udpServer, discovery, cards>>
watchVars == <<folder, directory, watcher, clock>>
appVars == <<discVars, watchVars>>
volVars == <<disk, volume, initialised, waiters, tasks, appVars>>
coreVars == <<transferId, dataPromises, reads, timers, sent, microtasks, lastMsg,
              disk, volume, initialised, waiters, tasks>>
vars == <<transferId, dataPromises, reads, timers, sent, microtasks, lastMsg,
          disk, volume, initialised, waiters, tasks,
          udpServer, discovery, cards, folder, directory, watcher, clock>>

Put(f, k, v) == [x \in DOMAIN f \cup {k} |-> IF x = k THEN v ELSE f[x]]
Remove(f, k) == [x \in DOMAIN f \ {k} |-> f[x]]

(***************************************************************************)
(* The state after construction of the module's UdpServer instance, of a   *)
(* NetworkDiscovery (its constructor subscribes it for all datagrams), and *)
(* of a Directory and its WatchDirectory.                                  *)
(***************************************************************************)
UdpServerInit == [subscribers |-> <<>>, allSubscribers |-> <<"discovery">>]

DiscoveryInit ==
    [discovered |-> <<>>, broadcastInterval |-> 0, onCardDiscovered |-> "default",
     intervals |-> {}, timersSet |-> 0, probes |-> {}, emitted |-> <<>>,
     accepted |-> {}]

\* entries is null; lists are the list calls that await volume.listFolder,
\* and late tells whether one of them was still awaited when time passed;
\* pending are the calls of the user that await volume.listFolder, and
\* begun and returned (what the last call returned) are history
DirectoryInit ==
    [isNull |-> TRUE, entries |-> <<>>,
     lists |-> [initExistingFiles |-> 0, detectChanges |-> 0], late |-> FALSE,
     pending |-> <<>>, begun |-> 0, returned |-> <<>>]

\* a WatchDirectory whose user has assigned the three callbacks; timers are
\* the intervals set and not cleared, and starts, passes, stayed and calls
\* are history, and so is destroyed: destroy() was called since start()
WatcherInit ==
    [alreadyDiscoveredFiles |-> <<>>, unstableFiles |-> <<>>, checkInterval |-> 5000,
     interval |-> 0, callbacks |-> "user", destroyed |-> FALSE,
     timers |-> <<>>, timersSet |-> 0, starts |-> 0, passes |-> 0,
     lastPass |-> <<>>, calls |-> <<>>]

\* the watched folder on the card: its children in directory order; changes
\* and sinceStart (the files there at the last start() and ever since) are
\* history
FolderInit == [children |-> <<>>, changes |-> 0, sinceStart |-> {}]

DiscoveryAppInit ==
    /\ udpServer = UdpServerInit
    /\ discovery = DiscoveryInit
    /\ cards = <<>>

AppInit ==
    /\ DiscoveryAppInit
    /\ folder = FolderInit
    /\ directory = DirectoryInit
    /\ watcher = WatcherInit
    /\ clock = 0

(***************************************************************************)
(* ResolvablePromise: a promise whose resolve and reject functions are     *)
(* public.  They are the functions of the underlying Promise, so a call on *)
(* a settled promise changes nothing.                                      *)
(***************************************************************************)
NoRequest == [header |-> "", direction |-> 0, cmd |-> 0, lba |-> 0,
              xfer_count |-> 0, transfer_id |-> 0]

NoDatagram == [tid |-> 0, data |-> <<>>]

ResolvablePromise == [state |-> "pending", value |-> <<>>, reason |-> NoRequest]

ResolveOverwrites(p, v) == [p EXCEPT !.state = "fulfilled", !.value = v]

Resolve(p, v) ==
    IF p.state = "pending" THEN [p EXCEPT !.state = "fulfilled", !.value = v]
    ELSE p

Reject(p, e) ==
    IF p.state = "pending" THEN [p EXCEPT !.state = "rejected", !.reason = e]
    ELSE p

(***************************************************************************)
(* Card.readBinaryData, up to its await.                                   *)
(***************************************************************************)
CraftRequestNextId(lba, count, tid) ==
    [header |-> "FC1307", direction |-> 1, cmd |-> 4, lba |-> lba,
     xfer_count |-> count, transfer_id |-> tid + 1]

CraftRequest(lba, count, tid) ==
    [header |-> "FC1307", direction |-> 1, cmd |-> 4, lba |-> lba,
     xfer_count |-> count, transfer_id |-> tid]

TimeoutError(msg) == msg

NoIncrement(t) == t

NextTransferId(t) == t + 1

\* owner: the task that awaits the call (0: a direct caller of the Card)
ReadBinaryData(lba, count, owner) ==
    LET msg == CraftRequest(lba, count, transferId)
        myTransferId == transferId
    IN  /\ transferId' = NextTransferId(transferId)
        /\ dataPromises' = Put(dataPromises, myTransferId, ResolvablePromise)
        /\ sent' = Append(sent, msg)
        /\ timers' = Append(timers, myTransferId)
        /\ reads' = Put(reads, myTransferId,
                        [lba |-> lba, count |-> count, owner |-> owner,
                         msg |-> msg, pc |-> "await", result |-> <<>>,
                         error |-> NoRequest, settled |-> <<>>,
                         by |-> NoDatagram, resumed |-> 0])

(***************************************************************************)
(* The READ_TIMEOUT timer of a call.  Timers of one duration fire in the   *)
(* order they were armed.                                                  *)
(***************************************************************************)
TimeoutFires ==
    /\ microtasks = <<>>
    /\ timers # <<>>
    /\ LET myTransferId == Head(timers)
           msg == reads[myTransferId].msg
       IN  /\ timers' = Tail(timers)
           /\ IF myTransferId \in DOMAIN dataPromises
              THEN LET p == dataPromises[myTransferId]
                       q == Reject(p, TimeoutError(msg))
                   IN  /\ dataPromises' = [dataPromises EXCEPT ![myTransferId] = q]
                       /\ IF q # p
                          THEN /\ microtasks' = <<[kind |-> "read", id |-> myTransferId]>>
                               /\ reads' = [reads EXCEPT ![myTransferId].settled =
                                                Append(@, "timeout")]
                          ELSE UNCHANGED <<microtasks, reads>>
              ELSE UNCHANGED <<dataPromises, microtasks, reads>>
    /\ UNCHANGED <<transferId, sent, lastMsg>>
    /\ UNCHANGED volVars

(***************************************************************************)
(* Card.onMessage and Card.incomingReadData: the handler the Card          *)
(* subscribes for datagrams from its ip.                                   *)
(***************************************************************************)
Min(a, b) == IF a < b THEN a ELSE b

\* the bytes from 24 on, whatever n_bytes says
WholeData(d) == d.data

\* msg.slice(24, 24 + nBytes)
StorageData(d) == SubSeq(d.data, 1, Min(d.nBytes, Len(d.data)))

OldestSlot(tid) ==
    IF DOMAIN dataPromises = {} THEN tid
    ELSE CHOOSE t \in DOMAIN dataPromises : \A u \in DOMAIN dataPromises : t <= u

\* the key incomingReadData looks up in dataPromises
SlotOf(tid) == tid

IncomingReadData(d) ==
    LET tid == SlotOf(d.tid)
        late == d.tid \in DOMAIN reads /\ reads[d.tid].pc = "failed"
    IN  IF tid \in DOMAIN dataPromises
        THEN LET p == dataPromises[tid]
                 q == Resolve(p, StorageData(d))
             IN  /\ dataPromises' = [dataPromises EXCEPT ![tid] = q]
                 /\ lastMsg' = [outcome |-> "resolve", late |-> late]
                 /\ IF q # p
                    THEN /\ microtasks' = <<[kind |-> "read", id |-> tid]>>
                         /\ reads' = [reads EXCEPT ![tid].settled = Append(@, "response"),
                                                   ![tid].by =
                                                      [tid |-> d.tid,
                                                       data |-> StorageData(d),
                                                       msg |-> d]]
                    ELSE UNCHANGED <<microtasks, reads>>
        ELSE /\ lastMsg' = [outcome |-> "unknown", late |-> late]
             /\ UNCHANGED <<dataPromises, microtasks, reads>>

OnMessage(d) ==
    /\ microtasks = <<>>
    /\ IF d.cmd = 4
       THEN IncomingReadData(d)
       ELSE /\ lastMsg' = [outcome |-> "ignored", late |-> FALSE]
            /\ UNCHANGED <<dataPromises, microtasks, reads>>
    /\ UNCHANGED <<transferId, timers, sent>>
    /\ UNCHANGED volVars

(***************************************************************************)
(* The rest of Card.readBinaryData: what runs when the awaited promise is  *)
(* settled.  A rejection is thrown by the await, so the delete after it is *)
(* not reached.                                                            *)
(***************************************************************************)
AfterAwait(t) ==
    LET p == dataPromises[t]
    IN  /\ t \in DOMAIN dataPromises
        /\ IF p.state = "fulfilled"
           THEN /\ dataPromises' = Remove(dataPromises, t)
                /\ reads' = [reads EXCEPT ![t].pc = "returned", ![t].result = p.value,
                                          ![t].resumed = @ + 1]
           ELSE /\ dataPromises' = dataPromises
                /\ reads' = [reads EXCEPT ![t].pc = "failed", ![t].error = p.reason,
                                          ![t].resumed = @ + 1]

\* the promise job that resumes the readBinaryData frame of a settled slot
ResumeRead ==
    /\ microtasks # <<>>
    /\ Head(microtasks).kind = "read"
    /\ LET t == Head(microtasks).id
       IN  /\ AfterAwait(t)
           /\ microtasks' =
                  IF reads[t].owner = 0 THEN Tail(microtasks)
                  ELSE Append(Tail(microtasks), [kind |-> "task", id |-> reads[t].owner])
    /\ UNCHANGED <<transferId, timers, sent, lastMsg>>
    /\ UNCHANGED volVars

(***************************************************************************)
(* Spec: one Card, read directly by its user, on a network that may        *)
(* deliver any datagram from the card's ip at any time: responses in any   *)
(* order, duplicated, late, or carrying an unknown transfer ID.            *)
(***************************************************************************)
Payloads == {[i \in 1 .. n |-> 0] : n \in 0 .. MaxPayload}

\* the (LBA_start, total_xfer_count) pairs a direct caller asks for
Requests == {<<0, 1>>, <<1, 14>>}

Datagrams ==
    [cmd : {1, 4}, tid : InitialTransferId .. InitialTransferId + MaxReads,
     nBytes : 0 .. MaxPayload, data : Payloads]

CardFieldsInit ==
    /\ transferId = InitialTransferId
    /\ dataPromises = <<>>
    /\ reads = <<>>
    /\ timers = <<>>
    /\ sent = <<>>
    /\ microtasks = <<>>
    /\ lastMsg = [outcome |-> "none", late |-> FALSE]

CardInit ==
    /\ CardFieldsInit
    /\ AppInit

NoVolume == [created |-> FALSE]

Init ==
    /\ CardInit
    /\ disk = <<>>
    /\ volume = NoVolume
    /\ initialised = "pending"
    /\ waiters = <<>>
    /\ tasks = <<>>

UserRead ==
    /\ microtasks = <<>>
    /\ Len(sent) < MaxReads
    /\ \E r \in Requests : ReadBinaryData(r[1], r[2], 0)
    /\ UNCHANGED <<microtasks, lastMsg>>
    /\ UNCHANGED volVars

Receive == \E d \in Datagrams : OnMessage(d)

Next == UserRead \/ TimeoutFires \/ Receive \/ ResumeRead

Spec == Init /\ [][Next]_vars

Armed(t) == \E i \in DOMAIN timers : timers[i] = t

(***************************************************************************)
(* C1: every readBinaryData call is completed by exactly one event.  Its   *)
(* slot is settled at most once, by a response or by the timer and never   *)
(* by both, the frame is resumed at most once with the outcome of that one *)
(* event, and once the call's timer has fired (and the promise jobs have   *)
(* run) the one event has happened.                                        *)
(***************************************************************************)
ExactlyOneCompletion ==
    \A t \in DOMAIN reads :
        LET r == reads[t]
        IN  /\ Len(r.settled) <= 1
            /\ r.resumed <= 1
            /\ r.pc = "await" => r.resumed = 0
            /\ r.pc = "returned" => r.settled = <<"response">> /\ r.resumed = 1
            /\ r.pc = "failed" => r.settled = <<"timeout">> /\ r.resumed = 1
            /\ (~Armed(t) /\ microtasks = <<>>) => r.resumed = 1

\* a response found the slot of a read that had already failed by timeout
LateResponseAfterTimeout ==
    /\ lastMsg = [outcome |-> "resolve", late |-> TRUE]
    /\ \E t \in DOMAIN reads : reads[t].pc = "failed" /\ ~Armed(t)

(***************************************************************************)
(* C2: once a readBinaryData call has returned a buffer or failed with     *)
(* TimeoutError, its transfer ID is no longer a key of dataPromises.       *)
(***************************************************************************)
SlotRemovedOnCompletion ==
    \A t \in DOMAIN reads :
        reads[t].pc \in {"returned", "failed"} => t \notin DOMAIN dataPromises

(***************************************************************************)
(* C3: a call returns the payload of a response that carried the call's    *)
(* own transfer ID, in whatever order the responses arrive.                *)
(***************************************************************************)
CorrelatedByTransferId ==
    \A t \in DOMAIN reads :
        reads[t].pc = "returned" =>
            reads[t].by.tid = t /\ reads[t].result = reads[t].by.data

\* two reads were outstanding and the later one was answered first
AnsweredOutOfOrder ==
    \E t, u \in DOMAIN reads :
        /\ t < u
        /\ reads[t].pc = "await" /\ Armed(t)
        /\ reads[u].pc = "returned"

(***************************************************************************)
(* C4: a call whose timer fires before a matching response fails with a    *)
(* TimeoutError that carries the call's own request (its LBA, its count,   *)
(* its transfer ID, 93 for the first read); a timer that fires after the   *)
(* slot was completed changes nothing.                                     *)
(***************************************************************************)
TimeoutErrorCarriesRequest ==
    \A t \in DOMAIN reads :
        LET r == reads[t]
        IN  /\ r.pc = "failed" =>
                    /\ r.error.header = "FC1307"
                    /\ r.error.direction = 1 /\ r.error.cmd = 4
                    /\ r.error.lba = r.lba
                    /\ r.error.xfer_count = r.count
                    /\ r.error.transfer_id = t
                    /\ sent[1 + t - 93] = r.error
            /\ (~Armed(t) /\ microtasks = <<>>) => r.pc \in {"returned", "failed"}
            /\ (~Armed(t) /\ r.settled # <<"response">>) => r.settled = <<"timeout">>

TimerAfterCompletionIsNoOp ==
    (/\ timers # <<>>
     /\ timers' = Tail(timers)
     /\ reads[Head(timers)].pc # "await")
        => UNCHANGED <<transferId, dataPromises, reads, sent, microtasks, lastMsg,
                       volVars>>

TimeoutFailsWithRequest ==
    []TimeoutErrorCarriesRequest /\ [][TimerAfterCompletionIsNoOp]_vars

\* one read failed by timeout, and the timer of a completed read has fired
TimedOutAndLateTimer ==
    \E t, u \in DOMAIN reads :
        /\ reads[t].pc = "failed" /\ reads[t].lba = 0 /\ reads[t].count = 1
        /\ reads[u].pc = "returned" /\ ~Armed(u)

(***************************************************************************)
(* C5: a response that arrives after its read has timed out finds no slot  *)
(* for its transfer ID.                                                    *)
(***************************************************************************)
LateResponseFindsNoSlot == lastMsg.late => lastMsg.outcome = "unknown"

(***************************************************************************)
(* C6: the transfer IDs of the requests of one Card start at 93 and grow   *)
(* by one per read, whatever became of the earlier reads.                  *)
(***************************************************************************)
TransferIdsIncreaseByOne ==
    /\ \A i \in DOMAIN sent : sent[i].transfer_id = 93 + (i - 1)
    /\ \A i, j \in DOMAIN sent : i < j => sent[i].transfer_id < sent[j].transfer_id
    /\ transferId = 93 + Len(sent)

\* three reads: the first timed out, the second returned, the third is outstanding
ReadsInEveryState ==
    /\ Len(sent) >= 3
    /\ reads[sent[1].transfer_id].pc = "failed"
    /\ reads[sent[2].transfer_id].pc = "returned"
    /\ reads[sent[3].transfer_id].pc = "await"

(***************************************************************************)
(* Buffers are sequences of bytes.  The readUInt* functions of a Buffer    *)
(* throw a RangeError when the field does not lie within the buffer.       *)
(***************************************************************************)
BlockSize == 512

LE16(v) == <<v % 256, (v \div 256) % 256>>

LE32(v) == <<v % 256, (v \div 256) % 256, (v \div 65536) % 256, (v \div 16777216) % 256>>

InRange(buf, offset, n) == offset >= 0 /\ offset + n <= Len(buf)

ReadUInt8(buf, offset) == buf[offset + 1]

ReadUInt16LE(buf, offset) == buf[offset + 1] + 256 * buf[offset + 2]

ReadUInt32LE(buf, offset) ==
    buf[offset + 1] + 256 * buf[offset + 2] + 65536 * buf[offset + 3]
        + 16777216 * buf[offset + 4]

\* buf.slice(0, end)
SliceTo(buf, end) == SubSeq(buf, 1, Min(end, Len(buf)))

(***************************************************************************)
(* The storage of the card: an MBR in block 0 and one FAT volume.  disk is *)
(* a record of the volume's parameters, its FAT and the partition entry;   *)
(* the bytes of its blocks are laid out as in section 6.4 of the spec and  *)
(* the FAT specification the adapter cites.                                *)
(***************************************************************************)
FirstDataSectorOf(d) == d.reservedSectors + d.numberOfFATs * d.oneFatSize

\* the partition table is d.table where the disk has one, and else the one
\* entry of the volume
MbrByte(d, o) ==
    IF "table" \in DOMAIN d /\ o \in 446 .. 509
    THEN LET entry == d.table[((o - 446) \div 16) + 1]
             k == (o - 446) % 16
         IN  IF k = 4 THEN entry.type
             ELSE IF k \in 8 .. 11 THEN LE32(entry.startLBA)[k - 7]
             ELSE IF k \in 12 .. 15 THEN LE32(entry.length)[k - 11]
             ELSE 0
    ELSE IF o = 450 THEN d.type
    ELSE IF o \in 454 .. 457 THEN LE32(d.startLBA)[o - 453]
    ELSE IF o \in 458 .. 461 THEN LE32(d.totalSectors)[o - 457]
    ELSE IF o = 510 THEN 85
    ELSE IF o = 511 THEN 170
    ELSE 0

BpbByte(d, o) ==
    IF o \in 11 .. 12 THEN LE16(d.sectorSize)[o - 10]
    ELSE IF o = 13 THEN d.sectorsPerCluster
    ELSE IF o \in 14 .. 15 THEN LE16(d.reservedSectors)[o - 13]
    ELSE IF o = 16 THEN d.numberOfFATs
    ELSE IF o \in 17 .. 18 THEN LE16(d.rootEntCnt)[o - 16]
    ELSE IF o \in 32 .. 35 THEN LE32(d.totalSectors)[o - 31]
    ELSE IF o \in 36 .. 39 THEN LE32(d.oneFatSize)[o - 35]
    ELSE IF o \in 44 .. 47 THEN LE32(d.rootCluster)[o - 43]
    ELSE 0

FatByte(d, o) ==
    LET e == o \div 4
    IN  IF e \in DOMAIN d.fat THEN LE32(d.fat[e])[(o % 4) + 1] ELSE 0

\* byte k of data cluster c: every cluster and every offset has its own pattern
DataByte(c, k) == (31 * c + k + (k \div 251)) % 251

\* a short directory entry: name, attributes, times and dates, cluster, size
ShortEntry(name, attr, time, date, cluster, size) ==
    name \o <<attr, 0, 0>> \o LE16(time) \o LE16(date) \o LE16(date)
        \o LE16(cluster \div 65536) \o LE16(time) \o LE16(date)
        \o LE16(cluster % 65536) \o LE32(size)

\* the root directory holds the entries d.root and free entries after them
ClusterByte(d, c, k) ==
    IF c = d.rootCluster
    THEN IF (k \div 32) + 1 \in DOMAIN d.root THEN d.root[(k \div 32) + 1][(k % 32) + 1]
         ELSE 0
    ELSE DataByte(c, k)

\* the byte at offset b of the volume
VolumeByte(d, b) ==
    LET sector == b \div d.sectorSize
        o == b % d.sectorSize
    IN  IF sector = 0 THEN BpbByte(d, o)
        ELSE IF sector < d.reservedSectors THEN 0
        ELSE IF sector < FirstDataSectorOf(d)
             THEN FatByte(d, ((sector - d.reservedSectors) % d.oneFatSize) * d.sectorSize + o)
        ELSE LET ds == sector - FirstDataSectorOf(d)
             IN  ClusterByte(d, (ds \div d.sectorsPerCluster) + 2,
                             (ds % d.sectorsPerCluster) * d.sectorSize + o)

DiskByte(d, a) ==
    IF a < BlockSize THEN MbrByte(d, a)
    ELSE IF a < d.startLBA * BlockSize THEN 0
    ELSE VolumeByte(d, a - d.startLBA * BlockSize)

ReadBlocks(d, lba, count) ==
    [i \in 1 .. count * BlockSize |-> DiskByte(d, lba * BlockSize + (i - 1))]

\* the one datagram the card answers a request with
ResponseTo(d, req) ==
    [cmd |-> 4, tid |-> req.transfer_id, nBytes |-> req.xfer_count * BlockSize,
     data |-> ReadBlocks(d, req.lba, req.xfer_count)]

\* the card answers the request of an outstanding read
CardResponds ==
    \E i \in DOMAIN sent :
        /\ reads[sent[i].transfer_id].pc = "await"
        /\ sent[i].lba + sent[i].xfer_count <= disk.startLBA + disk.totalSectors
        /\ OnMessage(ResponseTo(disk, sent[i]))

(***************************************************************************)
(* The calls of the volume's operations.  A task is one top-level call     *)
(* with the frames of the async functions it is in; pc is the await it is  *)
(* suspended at, and tid the read it awaits.                               *)
(***************************************************************************)
NoFile == [clusterNumber |-> 0, size |-> 0]

Task(op, file) ==
    [op |-> op, pc |-> "start", tid |-> 0, file |-> file, awaits |-> 0,
     cluster |-> 0, remaining |-> 0, firstSector |-> 0,
     sectorsLeft |-> 0, sectorOffset |-> 0, batch |-> 0,
     buffersCluster |-> <<>>, buffers |-> <<>>,
     chain |-> <<>>, result |-> <<>>, error |-> ""]

\* the promise jobs left when the running one is done
Rest == IF microtasks = <<>> THEN <<>> ELSE Tail(microtasks)

\* the call is made and the frame goes on without awaiting it
CallWithoutAwait(id, tk, lba, count, pc) ==
    /\ tasks' = Put(tasks, id, [tk EXCEPT !.pc = pc, !.tid = transferId,
                                          !.batch = count])
    /\ ReadBinaryData(lba, count, id)
    /\ microtasks' = Append(Rest, [kind |-> "task", id |-> id])

\* the task's frame calls card.readBinaryData and awaits it at pc
AwaitRead(id, tk, lba, count, pc) ==
    /\ tasks' = Put(tasks, id, [tk EXCEPT !.pc = pc, !.tid = transferId,
                                          !.batch = count])
    /\ ReadBinaryData(lba, count, id)
    /\ microtasks' = Rest

\* the task's frame returns or throws
Settle(id, tk) ==
    /\ tasks' = Put(tasks, id, tk)
    /\ microtasks' = Rest
    /\ UNCHANGED <<transferId, dataPromises, reads, timers, sent>>

\* await this.initialised, awaits - 1 more awaits of it to follow
AwaitInitialised(id, tk, awaits) ==
    /\ tasks' = Put(tasks, id, [tk EXCEPT !.pc = "awaitInit", !.awaits = awaits])
    /\ IF initialised = "fulfilled"
       THEN /\ microtasks' = Append(Rest, [kind |-> "task", id |-> id])
            /\ waiters' = waiters
       ELSE /\ microtasks' = Rest
            /\ waiters' = Append(waiters, id)
    /\ UNCHANGED <<transferId, dataPromises, reads, timers, sent>>

(***************************************************************************)
(* new FAT32Adapter(card, partitionInfo): the constructor starts           *)
(* readBIOSParameterBlock and does not await it.                           *)
(***************************************************************************)
NewVolume(id) ==
    /\ microtasks = <<>>
    /\ ~volume.created
    /\ id \notin DOMAIN tasks
    /\ volume' = [created |-> TRUE, sectorSize |-> 0, sectorsPerCluster |-> 0,
                  reservedSectors |-> 0, numberOfFATs |-> 0, rootEntCnt |-> 0,
                  fatSize |-> 0, oneFatSize |-> 0, rootCluster |-> 0,
                  fatStartLBA |-> 0, firstDataSector |-> 0,
                  startLBA |-> disk.startLBA]
    /\ AwaitRead(id, Task("readBIOSParameterBlock", NoFile), disk.startLBA, 1, "readBPB")
    /\ UNCHANGED <<appVars, lastMsg, disk, initialised, waiters>>

CeilDiv(a, b) == (a + b - 1) \div b

BIOSParameterBlock(parameters, startLBA) ==
    LET sectorSize == ReadUInt16LE(parameters, 11)
        reservedSectors == ReadUInt16LE(parameters, 14)
        numberOfFATs == ReadUInt8(parameters, 16)
        rootEntCnt == ReadUInt16LE(parameters, 17)
        oneFatSize == ReadUInt32LE(parameters, 36)
        rootDirSectors == CeilDiv(rootEntCnt * 32, sectorSize)
    IN  [created |-> TRUE,
         sectorSize |-> sectorSize,
         sectorsPerCluster |-> ReadUInt8(parameters, 13),
         reservedSectors |-> reservedSectors,
         numberOfFATs |-> numberOfFATs,
         rootEntCnt |-> rootEntCnt,
         fatSize |-> ReadUInt32LE(parameters, 32),
         oneFatSize |-> oneFatSize,
         rootCluster |-> ReadUInt32LE(parameters, 44),
         fatStartLBA |-> startLBA + reservedSectors,
         firstDataSector |-> reservedSectors + (numberOfFATs * oneFatSize)
                                + rootDirSectors,
         startLBA |-> startLBA]

\* readBIOSParameterBlock after its await: only its last statement resolves
\* the latch, and nothing rejects it
ContinueBPB ==
    /\ microtasks # <<>>
    /\ Head(microtasks).kind = "task"
    /\ LET id == Head(microtasks).id
           tk == tasks[id]
           r == reads[tk.tid]
       IN  /\ tk.pc = "readBPB"
           /\ IF r.pc = "failed"
              THEN /\ Settle(id, [tk EXCEPT !.pc = "failed", !.error = "TimeoutError"])
                   /\ UNCHANGED <<volume, initialised, waiters>>
              ELSE IF ~InRange(r.result, 44, 4)
              THEN /\ Settle(id, [tk EXCEPT !.pc = "failed", !.error = "RangeError"])
                   /\ UNCHANGED <<volume, initialised, waiters>>
              ELSE /\ tasks' = Put(tasks, id, [tk EXCEPT !.pc = "done"])
                   /\ UNCHANGED <<transferId, dataPromises, reads, timers, sent>>
                   /\ volume' = BIOSParameterBlock(r.result, volume.startLBA)
                   /\ initialised' = "fulfilled"
                   /\ microtasks' = Tail(microtasks) \o
                          [i \in DOMAIN waiters |-> [kind |-> "task", id |-> waiters[i]]]
                   /\ waiters' = <<>>
    /\ UNCHANGED <<appVars, lastMsg, disk>>

(***************************************************************************)
(* getFileContent, listFolder and getDirectory.  They read whole clusters  *)
(* in batches of at most 14 sectors.  The operations of a task are         *)
(*   getFileContent    getFileContent(file)                                *)
(*   listFolder        listFolder(file), the path an IFileInfo             *)
(*   listFolderPath    listFolder(""), through listRoot                    *)
(*   getDirectory      getDirectory("/"), through listFolder("")           *)
(***************************************************************************)
\* the awaits of the latch an operation passes before its first read:
\* its own, and those of listFolder and listRoot when it goes through them
AwaitsOf(op) ==
    IF op = "getDirectory" THEN 3
    ELSE IF op = "listFolderPath" THEN 2
    ELSE 1

\* a user calls an operation of the volume: it runs up to its first await
StartOp(id, op, file) ==
    /\ microtasks = <<>>
    /\ volume.created
    /\ id \notin DOMAIN tasks
    /\ AwaitInitialised(id, Task(op, file), AwaitsOf(op))
    /\ UNCHANGED <<appVars, lastMsg, disk, volume, initialised>>

CalculateFirstSectorOfCluster(n) ==
    ((n - 2) * volume.sectorsPerCluster) + volume.firstDataSector

NoTruncation(remaining, clusterSize) == clusterSize

\* nothing is counted as copied
CopyNothing(remaining, clusterSize) == 0

\* toCopy
ToCopy(remaining, clusterSize) == Min(remaining, clusterSize)

NextClusterUnmasked(fatBuffer, sectorOffsetFAT) == ReadUInt32LE(fatBuffer, sectorOffsetFAT)

\* fatBuffer.readUInt32LE(sectorOffsetFAT) & 0x0FFFFFFF
NextCluster(fatBuffer, sectorOffsetFAT) ==
    ReadUInt32LE(fatBuffer, sectorOffsetFAT) % 268435456

(***************************************************************************)
(* listCluster's parse of the directory cluster it has read.  Strings are  *)
(* sequences of UTF-16 code units.                                         *)
(***************************************************************************)
\* buf.toString('ascii', start, end): the high bit of a byte is dropped
ToStringAscii(buf, start, end) == [i \in 1 .. (end - start) |-> buf[start + i] % 128]

\* buf.toString('utf16le')
ToStringUtf16le(buf) == [i \in 1 .. (Len(buf) \div 2) |-> buf[(2 * i) - 1] + 256 * buf[2 * i]]

\* the white space String.prototype.trim removes, among the code units below 128
IsWhiteSpace(c) == c \in {9, 10, 11, 12, 13, 32}

Trim(str) ==
    LET kept == {i \in DOMAIN str : ~IsWhiteSpace(str[i])}
    IN  IF kept = {} THEN <<>>
        ELSE SubSeq(str, CHOOSE i \in kept : \A j \in kept : i <= j,
                         CHOOSE i \in kept : \A j \in kept : i >= j)

\* str.split('\0')[0]
SplitAtNul(str) ==
    LET nuls == {i \in DOMAIN str : str[i] = 0}
    IN  IF nuls = {} THEN str
        ELSE SubSeq(str, 1, (CHOOSE i \in nuls : \A j \in nuls : i <= j) - 1)

\* the name part, not cut at its first NUL
NamePartWhole(entry) ==
    ToStringUtf16le(SubSeq(entry, 2, 11) \o SubSeq(entry, 15, 26) \o SubSeq(entry, 29, 32))

\* the name part of a long file name entry: bytes 1..10, 14..25 and 28..31
NamePart(entry) ==
    SplitAtNul(ToStringUtf16le(SubSeq(entry, 2, 11) \o SubSeq(entry, 15, 26)
                                   \o SubSeq(entry, 29, 32)))

\* new Date(0) for a month or a day of 0, else the fields given to new Date
ParseFatDateTime(date, time) ==
    LET month == (date \div 32) % 16
        day == date % 32
    IN  IF month = 0 \/ day = 0 THEN [epoch |-> TRUE]
        ELSE [epoch |-> FALSE, year |-> 1980 + (date \div 512), month |-> month - 1,
              day |-> day, hour |-> time \div 2048, minute |-> (time \div 32) % 64,
              second |-> (time % 32) * 2]

\* (hi << 16) | lo, a signed 32-bit integer
ShiftOr(hi, lo) == IF hi >= 32768 THEN ((hi - 65536) * 65536) + lo ELSE (hi * 65536) + lo

\* the item pushed for a short entry
FileInfo(entry, longFileName) ==
    LET e == IF entry[1] = 5 THEN [entry EXCEPT ![1] = 229] ELSE entry
        base == Trim(ToStringAscii(e, 0, 8))
        ext == Trim(ToStringAscii(e, 8, 11))
    IN  [name |-> IF Len(longFileName) > 0 THEN longFileName
                  ELSE IF Len(ext) > 0 THEN base \o <<46>> \o ext
                  ELSE base,
         size |-> ReadUInt32LE(e, 28),
         isDirectory |-> (e[12] \div 16) % 2 = 1,
         clusterNumber |-> ShiftOr(ReadUInt16LE(e, 20), ReadUInt16LE(e, 26)),
         creationTime |-> ParseFatDateTime(ReadUInt16LE(e, 16), ReadUInt16LE(e, 14)),
         modificationTime |-> ParseFatDateTime(ReadUInt16LE(e, 24), ReadUInt16LE(e, 22))]

\* the loop, were an entry that begins with 0x00 skipped like a free one
RECURSIVE ParseEntriesPastEnd(_, _, _)
ParseEntriesPastEnd(buffer, offset, longFileName) ==
    IF offset + 32 > Len(buffer) THEN <<>>
    ELSE LET entry == SubSeq(buffer, offset + 1, offset + 32)
         IN  IF entry[1] \in {0, 229}
             THEN ParseEntriesPastEnd(buffer, offset + 32, longFileName)
             ELSE IF entry[12] = 15
             THEN ParseEntriesPastEnd(buffer, offset + 32,
                                      IF entry[1] % 32 > 0 THEN NamePart(entry) \o longFileName
                                      ELSE longFileName)
             ELSE <<FileInfo(entry, longFileName)>>
                      \o ParseEntriesPastEnd(buffer, offset + 32, <<>>)

\* the loop over the 32-byte entries of the buffer, from offset on
RECURSIVE ParseEntries(_, _, _)
ParseEntries(buffer, offset, longFileName) ==
    IF offset + 32 > Len(buffer) THEN <<>>
    ELSE LET entry == SubSeq(buffer, offset + 1, offset + 32)
         IN  IF entry[1] = 0 THEN <<>>
             ELSE IF entry[1] = 229 THEN ParseEntries(buffer, offset + 32, longFileName)
             ELSE IF entry[12] = 15
             THEN ParseEntries(buffer, offset + 32,
                               IF entry[1] % 32 > 0 THEN NamePart(entry) \o longFileName
                               ELSE longFileName)
             ELSE <<FileInfo(entry, longFileName)>> \o ParseEntries(buffer, offset + 32, <<>>)

\* new Directory(this, "/", {clusterNumber: this.rootCluster, ...})
RootDirectory ==
    [path |-> <<47>>, name |-> <<>>, size |-> 0, isDirectory |-> TRUE,
     clusterNumber |-> volume.rootCluster]

\* after the batch loop of a cluster
ClusterComplete(id, tk) ==
    IF tk.op = "getFileContent"
    THEN LET clusterSize == volume.sectorSize * volume.sectorsPerCluster
             toCopy == ToCopy(tk.remaining, clusterSize)
             fatOffset == tk.cluster * 4
             fatSector == fatOffset \div volume.sectorSize
         IN  AwaitRead(id, [tk EXCEPT !.buffers = @ \o SliceTo(tk.buffersCluster, toCopy),
                                     !.remaining = @ - toCopy],
                       volume.fatStartLBA + fatSector, 1, "readFat")
    ELSE IF tk.op = "getDirectory"
    THEN Settle(id, [tk EXCEPT !.pc = "done", !.result = RootDirectory])
    ELSE Settle(id, [tk EXCEPT !.pc = "done",
                               !.result = ParseEntries(tk.buffersCluster, 0, <<>>)])

ReadBatchWithoutAwait(id, tk, lba, batch) == CallWithoutAwait(id, tk, lba, batch, "readCluster")

\* const buf = await this.card.readBinaryData(lba, batch)
ReadBatch(id, tk, lba, batch) == AwaitRead(id, tk, lba, batch, "readCluster")

\* the loop, were the sectors that are left read in one call
BatchLoopInOneCall(id, tk) ==
    IF tk.sectorsLeft > 0
    THEN ReadBatch(id, tk, volume.startLBA + tk.firstSector + tk.sectorOffset,
                   tk.sectorsLeft)
    ELSE ClusterComplete(id, tk)

\* the batch loop: while(sectorsLeft > 0)
BatchLoop(id, tk) ==
    IF tk.sectorsLeft > 0
    THEN ReadBatch(id, tk, volume.startLBA + tk.firstSector + tk.sectorOffset,
                   Min(tk.sectorsLeft, 14))
    ELSE ClusterComplete(id, tk)

EnterCluster(id, tk, n) ==
    BatchLoop(id, [tk EXCEPT !.firstSector = CalculateFirstSectorOfCluster(n),
                             !.sectorsLeft = volume.sectorsPerCluster,
                             !.sectorOffset = 0,
                             !.buffersCluster = <<>>,
                             !.chain = Append(@, n)])

\* the loop, were it to go on until the chain ends
ChainLoopToEndOfChain(id, tk) ==
    IF tk.cluster >= 2 /\ tk.cluster < 268435448
    THEN EnterCluster(id, tk, tk.cluster)
    ELSE Settle(id, [tk EXCEPT !.pc = "done", !.result = tk.buffers])

\* getFileContent: while(cluster >= 2 && cluster < 0x0FFFFFF8 && remaining > 0)
ChainLoop(id, tk) ==
    IF tk.cluster >= 2 /\ tk.cluster < 268435448 /\ tk.remaining > 0
    THEN EnterCluster(id, tk, tk.cluster)
    ELSE Settle(id, [tk EXCEPT !.pc = "done", !.result = tk.buffers])

\* an operation resumed after await this.initialised
ContinueInitialised ==
    /\ microtasks # <<>>
    /\ Head(microtasks).kind = "task"
    /\ LET id == Head(microtasks).id
           tk == tasks[id]
       IN  /\ tk.pc = "awaitInit"
           /\ IF tk.awaits > 1
              THEN AwaitInitialised(id, tk, tk.awaits - 1)
              ELSE /\ waiters' = waiters
                   /\ IF tk.op = "getFileContent"
                      THEN ChainLoop(id, [tk EXCEPT !.remaining = tk.file.size,
                                                    !.cluster = tk.file.clusterNumber])
                      ELSE IF tk.op = "listFolder"
                      THEN EnterCluster(id, tk, tk.file.clusterNumber)
                      ELSE EnterCluster(id, tk, volume.rootCluster)
    /\ UNCHANGED <<appVars, lastMsg, disk, volume, initialised>>

\* resumed after the await of a batch read
ContinueCluster ==
    /\ microtasks # <<>>
    /\ Head(microtasks).kind = "task"
    /\ LET id == Head(microtasks).id
           tk == tasks[id]
           r == reads[tk.tid]
       IN  /\ tk.pc = "readCluster"
           /\ IF r.pc = "failed"
              THEN Settle(id, [tk EXCEPT !.pc = "failed", !.error = "TimeoutError"])
              ELSE BatchLoop(id, [tk EXCEPT !.buffersCluster = @ \o r.result,
                                            !.sectorsLeft = @ - tk.batch,
                                            !.sectorOffset = @ + tk.batch])
    /\ UNCHANGED <<appVars, lastMsg, disk, volume, initialised, waiters>>

\* getFileContent resumed after the await of the FAT read
ContinueFat ==
    /\ microtasks # <<>>
    /\ Head(microtasks).kind = "task"
    /\ LET id == Head(microtasks).id
           tk == tasks[id]
           r == reads[tk.tid]
           sectorOffsetFAT == (tk.cluster * 4) % volume.sectorSize
       IN  /\ tk.pc = "readFat"
           /\ IF r.pc = "failed"
              THEN Settle(id, [tk EXCEPT !.pc = "failed", !.error = "TimeoutError"])
              ELSE IF ~InRange(r.result, sectorOffsetFAT, 4)
              THEN Settle(id, [tk EXCEPT !.pc = "failed", !.error = "RangeError"])
              ELSE ChainLoop(id, [tk EXCEPT !.cluster =
                                               NextCluster(r.result, sectorOffsetFAT)])
    /\ UNCHANGED <<appVars, lastMsg, disk, volume, initialised, waiters>>

(***************************************************************************)
(* MBRUtility.getPartitions: the four entries of the partition table are   *)
(* read whatever their type, and those of type 0 are left out.             *)
(***************************************************************************)
DetectFileSystem(partitionType) ==
    IF partitionType \in {11, 12} THEN "FAT32"
    ELSE IF partitionType = 7 THEN "NTFS"
    ELSE IF partitionType = 131 THEN "Linux Filesystem"
    ELSE IF partitionType \in {5, 15} THEN "Extended Partition"
    ELSE "Unknown"

\* a reader that stops at the first empty entry
RECURSIVE PartitionsUntilEmpty(_, _)
PartitionsUntilEmpty(MBR, i) ==
    IF i >= 4 \/ ReadUInt8(MBR, 446 + (i * 16) + 4) = 0 THEN <<>>
    ELSE <<[startLBA |-> ReadUInt32LE(MBR, 446 + (i * 16) + 8),
            length |-> ReadUInt32LE(MBR, 446 + (i * 16) + 12),
            type |-> DetectFileSystem(ReadUInt8(MBR, 446 + (i * 16) + 4))]>>
         \o PartitionsUntilEmpty(MBR, i + 1)

RECURSIVE PartitionsFrom(_, _)
PartitionsFrom(MBR, i) ==
    IF i >= 4 THEN <<>>
    ELSE LET entryOffset == 446 + (i * 16)
             partitionType == ReadUInt8(MBR, entryOffset + 4)
         IN  (IF partitionType # 0
              THEN <<[startLBA |-> ReadUInt32LE(MBR, entryOffset + 8),
                      length |-> ReadUInt32LE(MBR, entryOffset + 12),
                      type |-> DetectFileSystem(partitionType)]>>
              ELSE <<>>) \o PartitionsFrom(MBR, i + 1)

\* a user calls getPartitions: it runs up to the await of its read
GetPartitions(id) ==
    /\ microtasks = <<>>
    /\ id \notin DOMAIN tasks
    /\ AwaitRead(id, Task("getPartitions", NoFile), 0, 1, "readMBR")
    /\ UNCHANGED <<appVars, lastMsg, disk, volume, initialised, waiters>>

\* getPartitions resumed after the await of its read
ContinueMBR ==
    /\ microtasks # <<>>
    /\ Head(microtasks).kind = "task"
    /\ LET id == Head(microtasks).id
           tk == tasks[id]
           r == reads[tk.tid]
       IN  /\ tk.pc = "readMBR"
           /\ IF r.pc = "failed"
              THEN Settle(id, [tk EXCEPT !.pc = "failed", !.error = "TimeoutError"])
              ELSE IF ~InRange(r.result, 446, 64)
              THEN Settle(id, [tk EXCEPT !.pc = "failed", !.error = "RangeError"])
              ELSE Settle(id, [tk EXCEPT !.pc = "done",
                                         !.result = PartitionsFrom(r.result, 0)])
    /\ UNCHANGED <<appVars, lastMsg, disk, volume, initialised, waiters>>

(***************************************************************************)
(* SpecFile: one getFileContent call on a volume whose card answers each   *)
(* request with one datagram holding the requested blocks, or not at all.  *)
(* The disks are volumes of 512-byte sectors with clusters 2..7; cluster 2 *)
(* is the root directory, and the FATs hold whole chains, a chain whose    *)
(* entries carry reserved high bits, a chain that ends early, a chain      *)
(* through a free entry and a cycle.                                       *)
(***************************************************************************)
EndOfChain == 268435448 + 7

Fats ==
    { <<4, 5, EndOfChain, 0, 0>>,
      <<268435456 + 5, 268435448, 4, 0, 0>>,
      <<4, EndOfChain, 0, 0, 0>>,
      <<4, 3, 0, 0, 0>>,
      <<0, 0, 0, 0, 0>> }

\* FAT entries 0 and 1 are reserved, entry 2 ends the root directory
FatOf(next) ==
    [c \in 0 .. 7 |-> IF c = 0 THEN 268435448
                      ELSE IF c \in {1, 2} THEN EndOfChain
                      ELSE next[c - 2]]

DiskOf(spc, next) ==
    [type |-> 12, startLBA |-> 1, sectorSize |-> BlockSize, sectorsPerCluster |-> spc,
     reservedSectors |-> 1, numberOfFATs |-> 2, rootEntCnt |-> 0,
     oneFatSize |-> 1, rootCluster |-> 2, totalSectors |-> 3 + (6 * spc),
     fat |-> FatOf(next),
     root |-> <<ShortEntry(<<65, 32, 32, 32, 32, 32, 32, 32, 74, 80, 71>>, 32,
                           (12 * 2048) + (30 * 32) + 5, (45 * 512) + (6 * 32) + 15,
                           3, spc * BlockSize),
                ShortEntry(<<68, 67, 73, 77, 32, 32, 32, 32, 32, 32, 32>>, 16,
                           (12 * 2048) + (30 * 32) + 5, (45 * 512) + (6 * 32) + 15,
                           6, 0)>>]

FileDisks == {DiskOf(spc, next) : spc \in {1, 2}, next \in Fats}

\* the entry of an empty file has no cluster
FileEntries ==
    {NoFile} \cup [clusterNumber : {3}, size : {0, 1, 512, 513, 1436, 1536, 2000}]

InitFile ==
    /\ CardInit
    /\ disk \in FileDisks
    /\ volume = NoVolume
    /\ initialised = "pending"
    /\ waiters = <<>>
    /\ tasks = <<>>

CreateVolume == NewVolume(1)

GetFileContent == \E file \in FileEntries : StartOp(2, "getFileContent", file)

NextFile ==
    \/ CreateVolume
    \/ GetFileContent
    \/ CardResponds
    \/ TimeoutFires
    \/ ResumeRead
    \/ ContinueBPB
    \/ ContinueInitialised
    \/ ContinueCluster
    \/ ContinueFat

SpecFile == InitFile /\ [][NextFile]_vars

(***************************************************************************)
(* What the disk holds for a file, read off the FAT and the data clusters  *)
(* themselves: the first n clusters of the chain from c, each next cluster *)
(* being the FAT entry of the current one without its four reserved bits.  *)
(***************************************************************************)
RECURSIVE FatChain(_, _, _)
FatChain(d, c, n) ==
    IF n = 0 \/ c < 2 \/ c >= 268435448 THEN <<>>
    ELSE <<c>> \o FatChain(d, d.fat[c] % 268435456, n - 1)

ClusterSizeOf(d) == d.sectorSize * d.sectorsPerCluster

ClusterData(d, c) == [k \in 1 .. ClusterSizeOf(d) |-> DataByte(c, k - 1)]

RECURSIVE ChainData(_, _)
ChainData(d, chain) ==
    IF chain = <<>> THEN <<>>
    ELSE ClusterData(d, Head(chain)) \o ChainData(d, Tail(chain))

\* the clusters of the file's chain that hold its first size bytes
FileChain(d, file) ==
    FatChain(d, file.clusterNumber, CeilDiv(file.size, ClusterSizeOf(d)))

Returned(id) ==
    /\ id \in DOMAIN tasks
    /\ tasks[id].op = "getFileContent"
    /\ tasks[id].pc = "done"

(***************************************************************************)
(* C9 as claimed: getFileContent returns a buffer of exactly entry.size    *)
(* bytes, for any entry and any chain.                                     *)
(***************************************************************************)
ContentHasEntrySize ==
    \A id \in DOMAIN tasks :
        Returned(id) => Len(tasks[id].result) = tasks[id].file.size

(***************************************************************************)
(* C9 as amended: getFileContent returns min(entry.size, n * clusterSize)  *)
(* bytes, n being the number of clusters of the chain from                 *)
(* entry.firstCluster: never more than entry.size bytes, and exactly       *)
(* entry.size bytes when the chain holds that many.                        *)
(***************************************************************************)
ContentSizeBoundedByChain ==
    \A id \in DOMAIN tasks :
        Returned(id) =>
            LET file == tasks[id].file
                n == Len(FileChain(disk, file))
            IN  /\ Len(tasks[id].result) = Min(file.size, n * ClusterSizeOf(disk))
                /\ Len(tasks[id].result) <= file.size
                /\ n * ClusterSizeOf(disk) >= file.size
                       => Len(tasks[id].result) = file.size

\* scenario S4: a chain of three clusters and a file of 1436 bytes
ThreeClusterFileReturned ==
    \E id \in DOMAIN tasks :
        /\ Returned(id)
        /\ tasks[id].file.size = 1436
        /\ Len(tasks[id].chain) = 3
        /\ Len(tasks[id].result) = 1436

(***************************************************************************)
(* C10 as claimed: the result is the data of the clusters of the chain in  *)
(* chain order, the last chunk cut so that the total is entry.size bytes.  *)
(***************************************************************************)
ContentIsChainCutToEntrySize ==
    \A id \in DOMAIN tasks :
        Returned(id) =>
            LET file == tasks[id].file
            IN  /\ tasks[id].result = SliceTo(ChainData(disk, FileChain(disk, file)),
                                              file.size)
                /\ Len(tasks[id].result) = file.size

(***************************************************************************)
(* C10 as amended: the result is the data of the clusters of the chain in  *)
(* chain order, cut to at most entry.size bytes: the first entry.size      *)
(* bytes of the chain's data, or all of it when the chain holds less.      *)
(***************************************************************************)
ContentIsChainInOrder ==
    \A id \in DOMAIN tasks :
        Returned(id) =>
            LET file == tasks[id].file
                chain == FileChain(disk, file)
                cs == ClusterSizeOf(disk)
                result == tasks[id].result
            IN  /\ result = SliceTo(ChainData(disk, chain), file.size)
                /\ tasks[id].chain = chain
                /\ \A k \in DOMAIN chain :
                       SubSeq(result, (k - 1) * cs + 1, Min(k * cs, Len(result)))
                          = SliceTo(ClusterData(disk, chain[k]),
                                    Min(k * cs, Len(result)) - (k - 1) * cs)

\* a chain that is not in cluster order, through an entry with reserved bits set
OutOfOrderChainReturned ==
    \E id \in DOMAIN tasks :
        /\ Returned(id)
        /\ tasks[id].chain = <<3, 5, 4>>
        /\ tasks[id].file.size = 1436
        /\ Len(tasks[id].result) = 1436

\* the reads of a call that read data clusters, and those that read the FAT
DataReads(id) ==
    {t \in DOMAIN reads : /\ reads[t].owner = id
                          /\ reads[t].lba >= disk.startLBA + FirstDataSectorOf(disk)}

FatReads(id) ==
    {t \in DOMAIN reads : /\ reads[t].owner = id
                          /\ reads[t].lba < disk.startLBA + FirstDataSectorOf(disk)}

\* the first sector of cluster c on the card
ClusterLba(d, c) == d.startLBA + FirstDataSectorOf(d) + ((c - 2) * d.sectorsPerCluster)

(***************************************************************************)
(* C34: getFileContent reads a data cluster c only when 2 <= c <           *)
(* 0x0FFFFFF8 and bytes remain: the clusters it has read are the first     *)
(* clusters of the chain from the entry's cluster, at most as many as hold *)
(* entry.size bytes and none after a FAT value that ends the chain; every  *)
(* data read is a read of one of them; and for an entry of size 0 it       *)
(* reads nothing.                                                          *)
(***************************************************************************)
NoReadPastTerminalCluster ==
    \A id \in DOMAIN tasks :
        tasks[id].op = "getFileContent" =>
            LET tk == tasks[id]
                whole == FileChain(disk, tk.file)
            IN  /\ Len(tk.chain) <= Len(whole)
                /\ tk.chain = SubSeq(whole, 1, Len(tk.chain))
                /\ \A k \in DOMAIN tk.chain : tk.chain[k] >= 2 /\ tk.chain[k] < 268435448
                /\ Len(tk.chain) <= CeilDiv(tk.file.size, ClusterSizeOf(disk))
                /\ \A t \in DataReads(id) :
                       \E k \in DOMAIN tk.chain :
                           /\ reads[t].lba >= ClusterLba(disk, tk.chain[k])
                           /\ reads[t].lba < ClusterLba(disk, tk.chain[k])
                                                 + disk.sectorsPerCluster
                /\ Cardinality(FatReads(id)) <= Len(tk.chain)
                /\ tk.pc = "done" => tk.chain = whole
                /\ tk.file.size = 0 => DataReads(id) \cup FatReads(id) = {}

\* a file of 2000 bytes whose chain ends after two clusters has been read
ChainEndedBeforeSize ==
    \E id \in DOMAIN tasks :
        /\ Returned(id)
        /\ tasks[id].file.size = 2000
        /\ tasks[id].chain = <<3, 4>>
        /\ Cardinality(DataReads(id)) = 2
        /\ Cardinality(FatReads(id)) = 2

(***************************************************************************)
(* SpecFileAnswered: getFileContent on the five FATs with a card that       *)
(* answers every request before its READ_TIMEOUT timer fires, and an event *)
(* loop that runs every job it has.  A timer fires only after its read has *)
(* returned.                                                               *)
(***************************************************************************)
TimerAfterReturn ==
    /\ timers # <<>>
    /\ reads[Head(timers)].pc = "returned"
    /\ TimeoutFires

\* an empty file, a file of two clusters and one of four
AnsweredEntries == [clusterNumber : {3}, size : {0, 513, 2000}]

InitFileAnswered ==
    /\ CardInit
    /\ disk \in {DiskOf(1, next) : next \in Fats}
    /\ volume = NoVolume
    /\ initialised = "pending"
    /\ waiters = <<>>
    /\ tasks = <<>>

GetAnsweredContent == \E file \in AnsweredEntries : StartOp(2, "getFileContent", file)

NextFileAnswered ==
    \/ CreateVolume
    \/ GetAnsweredContent
    \/ CardResponds
    \/ TimerAfterReturn
    \/ ResumeRead
    \/ ContinueBPB
    \/ ContinueInitialised
    \/ ContinueCluster
    \/ ContinueFat

SpecFileAnswered == InitFileAnswered /\ [][NextFileAnswered]_vars /\ WF_vars(NextFileAnswered)

\* the clusters a getFileContent call has entered are no more than hold the
\* bytes of the entry
IterationsBoundedBySize ==
    \A id \in DOMAIN tasks :
        tasks[id].op = "getFileContent" =>
            Len(tasks[id].chain)
                <= CeilDiv(tasks[id].file.size, ClusterSizeOf(disk))

(***************************************************************************)
(* C35: when every read is answered, getFileContent returns, whatever the  *)
(* FAT holds, after at most ceil(entry.size / clusterSize) iterations of   *)
(* its loop.                                                               *)
(***************************************************************************)
ReturnsWithinSize ==
    /\ []IterationsBoundedBySize
    /\ (2 \in DOMAIN tasks) ~> Returned(2)

\* a file of 2000 bytes whose chain is a cycle of two clusters has been read
\* in four iterations
CycleReadFourTimes ==
    /\ Returned(2)
    /\ tasks[2].file.size = 2000
    /\ tasks[2].chain = <<3, 4, 3, 4>>
    /\ Len(tasks[2].result) = 2000

(***************************************************************************)
(* SpecBatch: listFolder and getFileContent on volumes whose clusters have *)
(* 16 and 30 sectors, more than one readBinaryData call can ask for.  The  *)
(* card answers a request with the requested blocks, or not at all.        *)
(***************************************************************************)
BatchDisks == {DiskOf(spc, <<4, EndOfChain, 0, 0, 0>>) : spc \in {16, 30}}

\* a file of one byte and a file of one cluster and one byte, and the root
BatchCalls ==
    {<<"getFileContent", [clusterNumber |-> 3, size |-> 1]>>,
     <<"getFileContent", [clusterNumber |-> 3, size |-> (16 * BlockSize) + 1]>>,
     <<"listFolder", [clusterNumber |-> 2, size |-> 0]>>}

InitBatch ==
    /\ CardInit
    /\ disk \in BatchDisks
    /\ volume = NoVolume
    /\ initialised = "pending"
    /\ waiters = <<>>
    /\ tasks = <<>>

CallBatch == \E call \in BatchCalls : StartOp(2, call[1], call[2])

NextBatch ==
    \/ CreateVolume
    \/ CallBatch
    \/ CardResponds
    \/ TimeoutFires
    \/ ResumeRead
    \/ ContinueBPB
    \/ ContinueInitialised
    \/ ContinueCluster
    \/ ContinueFat

SpecBatch == InitBatch /\ [][NextBatch]_vars

\* the reads a call has issued, in the order it issued them
ReadsIssued(id) ==
    LET mine == {t \in DOMAIN reads : reads[t].owner = id}
    IN  [k \in 1 .. Cardinality(mine) |->
            CHOOSE t \in mine : Cardinality({u \in mine : u < t}) = k - 1]

\* the calls that read a cluster of d.sectorsPerCluster sectors from sector
\* offset on, none for more than 14 sectors
RECURSIVE BatchesOf(_, _, _)
BatchesOf(d, c, offset) ==
    IF offset >= d.sectorsPerCluster THEN <<>>
    ELSE <<[lba |-> ClusterLba(d, c) + offset,
            count |-> Min(d.sectorsPerCluster - offset, 14)]>>
             \o BatchesOf(d, c, offset + 14)

\* the read of the sector of the FAT that holds the entry of cluster c
FatLookup(d, c) ==
    [lba |-> d.startLBA + d.reservedSectors + ((c * 4) \div d.sectorSize), count |-> 1]

\* the reads of a call that has entered the clusters of chain
RECURSIVE ExpectedReads(_, _, _)
ExpectedReads(d, op, chain) ==
    IF chain = <<>> THEN <<>>
    ELSE BatchesOf(d, Head(chain), 0)
             \o (IF op = "getFileContent" THEN <<FatLookup(d, Head(chain))>> ELSE <<>>)
             \o ExpectedReads(d, op, Tail(chain))

RECURSIVE ResultsOf(_)
ResultsOf(issued) ==
    IF issued = <<>> THEN <<>> ELSE reads[Head(issued)].result \o ResultsOf(Tail(issued))

(***************************************************************************)
(* C33: every read of the volume asks for 1 to 14 sectors.  The reads of a *)
(* call are, in order, those of the clusters it has entered: for each      *)
(* cluster the calls from startLBA + firstSectorOfCluster on, at           *)
(* successive offsets, whose counts add up to sectorsPerCluster, and for   *)
(* getFileContent then one sector of the FAT; and the buffer of a cluster  *)
(* is what these calls returned, in that order.                            *)
(***************************************************************************)
ClusterReadInBatches ==
    /\ \A t \in DOMAIN reads : reads[t].count \in 1 .. 14
    /\ \A id \in DOMAIN tasks :
           tasks[id].op \in {"getFileContent", "listFolder"} =>
               LET tk == tasks[id]
                   issued == ReadsIssued(id)
                   asked == [k \in DOMAIN issued |->
                                [lba |-> reads[issued[k]].lba,
                                 count |-> reads[issued[k]].count]]
                   expected == ExpectedReads(disk, tk.op, tk.chain)
                   before == IF tk.chain = <<>> THEN <<>>
                             ELSE ExpectedReads(disk, tk.op,
                                                SubSeq(tk.chain, 1, Len(tk.chain) - 1))
                   batches == Len(BatchesOf(disk, 2, 0))
               IN  /\ Len(asked) <= Len(expected)
                   /\ asked = SubSeq(expected, 1, Len(asked))
                   /\ tk.chain # <<>> => Len(asked) > Len(before)
                   /\ tk.pc = "done" => asked = expected
                   /\ (tk.pc \in {"readFat", "done"} /\ tk.chain # <<>>) =>
                          /\ Len(tk.buffersCluster) = disk.sectorsPerCluster * BlockSize
                          /\ tk.buffersCluster
                                 = ResultsOf(SubSeq(issued, Len(before) + 1,
                                                    Len(before) + batches))

\* a cluster of 30 sectors has been read by calls for 14, 14 and 2 sectors
ClusterOfThirtyRead ==
    /\ disk.sectorsPerCluster = 30
    /\ 2 \in DOMAIN tasks
    /\ tasks[2].pc = "done"
    /\ tasks[2].op = "getFileContent"
    /\ LET issued == ReadsIssued(2)
       IN  /\ Len(issued) = 4
           /\ reads[issued[1]].count = 14
           /\ reads[issued[2]].count = 14
           /\ reads[issued[3]].count = 2
           /\ reads[issued[4]].count = 1

(***************************************************************************)
(* SpecVolume: a volume on one disk and up to MaxCalls calls of            *)
(* getPartitions, getDirectory("/"), listFolder and getFileContent, begun  *)
(* at any time, also while the BPB read or the reads of other calls are    *)
(* outstanding.  The card answers a request with the requested blocks, or  *)
(* not at all, and then the READ_TIMEOUT timer of the read fires.          *)
(***************************************************************************)
MaxCalls == 2

VolumeDisk == DiskOf(1, <<4, EndOfChain, 0, 0, 0>>)

\* the calls a user makes: the root directory's item, as Directory.list
\* passes it, and the entry of a file of two clusters
VolumeCalls ==
    { <<"getDirectory", NoFile>>,
      <<"listFolderPath", NoFile>>,
      <<"listFolder", [clusterNumber |-> VolumeDisk.rootCluster, size |-> 0]>>,
      <<"getFileContent", [clusterNumber |-> 3, size |-> BlockSize + 1]>> }

InitVolume ==
    /\ CardInit
    /\ disk = VolumeDisk
    /\ volume = NoVolume
    /\ initialised = "pending"
    /\ waiters = <<>>
    /\ tasks = <<>>

\* calls are numbered in the order they are made; call 1 is the constructor's
NextCall(id) ==
    /\ id \in 2 .. (MaxCalls + 1)
    /\ id \notin DOMAIN tasks
    /\ \A j \in 2 .. (id - 1) : j \in DOMAIN tasks

CallGetPartitions == \E id \in 2 .. (MaxCalls + 1) : NextCall(id) /\ GetPartitions(id)

CallVolume ==
    \E id \in 2 .. (MaxCalls + 1), c \in VolumeCalls :
        NextCall(id) /\ StartOp(id, c[1], c[2])

NextVolume ==
    \/ CreateVolume
    \/ CallGetPartitions
    \/ CallVolume
    \/ CardResponds
    \/ TimeoutFires
    \/ ResumeRead
    \/ ContinueBPB
    \/ ContinueMBR
    \/ ContinueInitialised
    \/ ContinueCluster
    \/ ContinueFat

SpecVolume == InitVolume /\ [][NextVolume]_vars

\* the reads of a call that are issued and have not returned or failed
ReadsAwaited(id) == {t \in DOMAIN reads : reads[t].owner = id /\ reads[t].pc = "await"}

\* the reads of the volume's calls that no response and no timeout has settled
VolumeReadsOutstanding ==
    {t \in DOMAIN reads : /\ reads[t].owner \in DOMAIN tasks
                          /\ tasks[reads[t].owner].op # "getPartitions"
                          /\ reads[t].settled = <<>>}

Quiescent == microtasks = <<>> /\ \A t \in DOMAIN reads : reads[t].pc # "await"

TimeoutAbortsCall ==
    /\ microtasks = <<>> =>
           \A t \in DOMAIN reads :
               (reads[t].pc = "failed" /\ reads[t].owner \in DOMAIN tasks) =>
                   /\ tasks[reads[t].owner].pc = "failed"
                   /\ \A u \in DOMAIN reads : reads[u].owner = reads[t].owner => u <= t
    /\ Quiescent => \A id \in DOMAIN tasks : tasks[id].pc \in {"done", "failed"}

(***************************************************************************)
(* NetworkDiscovery.  A datagram is the sequence of its bytes; an ip is    *)
(* the sequence of its four bytes and a mac that of its six, which the     *)
(* strings parseCardInfo joins them into determine and are determined by.  *)
(***************************************************************************)
Header == <<70, 67, 49, 51, 48, 55>>

\* msg.at(i): undefined, here -1, beyond the end
At(msg, i) == IF i < Len(msg) THEN msg[i + 1] ELSE -1

\* handleIncommingMessage hands the datagram to parseCardInfo
PassesChecks(msg) ==
    /\ ~(Len(msg) < Len(Header) \/ ToStringAscii(msg, 0, Len(Header)) # Header)
    /\ ~(At(msg, 6) # 2)
    /\ At(msg, 7) = 1

\* parseCardInfo: msg.readUInt32BE(capacityOffset) throws on a short datagram
ParseThrows(msg) == ~InRange(msg, 14 + 23, 4)

ParseCardInfo(msg) ==
    [ip |-> [i \in 1 .. 4 |-> At(msg, 14 + (i - 1))],
     mac |-> [i \in 1 .. 6 |-> At(msg, 18 + (i - 1))],
     apMode |-> At(msg, 14 + 27) = 1]

\* new Card(info.ip, info.mac, ...); destroyed and receivedDestroyed are history
NewCard(info) ==
    [ip |-> info.ip, mac |-> info.mac, destroyed |-> FALSE, receivedDestroyed |-> FALSE]

\* Card.destroy(): its body is empty
CardDestroy(card) == [card EXCEPT !.destroyed = TRUE]

\* Card.onMessage of a Card that awaits no read: nothing but a warning
CardOnMessage(card) ==
    [card EXCEPT !.receivedDestroyed = @ \/ card.destroyed]

\* some discovered card has this ip and this mac
AlreadyDiscovered(info) ==
    \E i \in DOMAIN discovery.discovered :
        LET card == cards[discovery.discovered[i]]
        IN  card.ip = info.ip /\ card.mac = info.mac

\* sendBroadcast: a KTC probe is sent; probes is the history of who sent one,
\* startDiscovering (0) or the callback of an interval, and whether the
\* NetworkDiscovery held an interval then
SendBroadcast(probes, timer, broadcastInterval) ==
    probes \cup {[timer |-> timer, discovering |-> broadcastInterval # 0]}

MaxStarts == 2
MaxCards == 2

\* startDiscovering: the handle of the new interval replaces the field
StartDiscovering ==
    /\ discovery.timersSet < MaxStarts
    /\ LET t == discovery.timersSet + 1
       IN  discovery' = [discovery EXCEPT
                            !.broadcastInterval = t,
                            !.intervals = @ \cup {t},
                            !.timersSet = t,
                            !.probes = SendBroadcast(@, 0, t)]
    /\ UNCHANGED <<coreVars, udpServer, cards, watchVars>>

\* the fields of the NetworkDiscovery after stopDiscovering
Stopped(d) ==
    IF d.broadcastInterval # 0
    THEN [d EXCEPT !.intervals = @ \ {d.broadcastInterval}, !.broadcastInterval = 0]
    ELSE d

StopDiscovering ==
    /\ discovery' = Stopped(discovery)
    /\ UNCHANGED <<coreVars, udpServer, cards, watchVars>>

\* the callback of an interval that was set and not cleared
BroadcastIntervalFires ==
    /\ \E t \in discovery.intervals :
           discovery' = [discovery EXCEPT
                            !.probes = SendBroadcast(@, t, discovery.broadcastInterval)]
    /\ UNCHANGED <<coreVars, udpServer, cards, watchVars>>

\* NetworkDiscovery.destroy
DestroyDiscovery ==
    /\ discovery' = [Stopped(discovery) EXCEPT !.discovered = <<>>,
                                               !.onCardDiscovered = "default"]
    /\ cards' = [c \in DOMAIN cards |->
                    IF \E i \in DOMAIN discovery.discovered : discovery.discovered[i] = c
                    THEN CardDestroy(cards[c]) ELSE cards[c]]
    /\ UNCHANGED <<coreVars, udpServer, watchVars>>

\* the user destroys a Card
DestroyCard ==
    /\ \E c \in DOMAIN cards :
           /\ ~cards[c].destroyed
           /\ cards' = [cards EXCEPT ![c] = CardDestroy(@)]
    /\ UNCHANGED <<coreVars, udpServer, discovery, watchVars>>

\* the user assigns onCardDiscovered
SetOnCardDiscovered ==
    /\ discovery.onCardDiscovered # "user"
    /\ discovery' = [discovery EXCEPT !.onCardDiscovered = "user"]
    /\ UNCHANGED <<coreVars, udpServer, cards, watchVars>>

(***************************************************************************)
(* UdpServer.handleIncommingMessage for a datagram msg from address: the   *)
(* handlers subscribed for all, here NetworkDiscovery's, and then the      *)
(* handler of the Card subscribed for the address.  An exception thrown by *)
(* the first leaves the second uncalled.                                   *)
(***************************************************************************)
HandleIncommingMessage(msg, address) ==
    LET passes == PassesChecks(msg)
        throws == passes /\ ParseThrows(msg)
        info == ParseCardInfo(msg)
        create == passes /\ ~throws /\ ~AlreadyDiscovered(info)
        card == Len(cards) + 1
        cards1 == IF create THEN Append(cards, NewCard(info)) ELSE cards
        subscribers1 == IF create THEN Put(udpServer.subscribers, info.ip, card)
                        ELSE udpServer.subscribers
    IN  /\ create => Len(cards) < MaxCards
        /\ discovery' = [discovery EXCEPT
               !.discovered = IF create THEN Append(@, card) ELSE @,
               !.emitted = IF create
                           THEN Append(@, [ip |-> info.ip, mac |-> info.mac,
                                           callback |-> discovery.onCardDiscovered])
                           ELSE @,
               !.accepted = IF passes THEN @ \cup {SubSeq(msg, 1, 8)} ELSE @]
        /\ udpServer' = [udpServer EXCEPT !.subscribers = subscribers1]
        /\ cards' = IF ~throws /\ address \in DOMAIN subscribers1
                    THEN [cards1 EXCEPT ![subscribers1[address]] = CardOnMessage(@)]
                    ELSE cards1

(***************************************************************************)
(* SpecDiscovery: a NetworkDiscovery whose user starts, stops and destroys *)
(* it in any order, on a network that delivers card info datagrams of two  *)
(* ips and two macs, whole or cut short, with a right or a wrong header,   *)
(* direction and command.                                                  *)
(***************************************************************************)
Ips == {<<192, 168, 0, 123>>, <<192, 168, 0, 124>>}

Macs == {<<170, 187, 204, 221, 238, 255>>, <<170, 187, 204, 221, 238, 0>>}

\* FC1307, the same with the high bit of the first byte set, and FC1308
Headers == {Header, <<198, 67, 49, 51, 48, 55>>, <<70, 67, 49, 51, 48, 56>>}

\* the datagram of scenario S1, for any header, direction, command, ip and mac
CardInfo(header, direction, cmd, ip, mac) ==
    header \o <<direction, cmd>> \o <<0, 0, 0, 0, 0, 0>> \o ip \o mac \o <<83, 68>>
        \o <<86, 101, 114, 32, 49, 46, 50, 46, 51, 0, 0>> \o <<0, 0, 128, 0>>
        \o <<1, 3>> \o <<97, 98, 99>> \o <<0, 0>>

Lengths == {5, 7, 30}

\* the card info of every ip and mac, and that of one of them with another
\* header, direction or command, or cut short
InboundDatagrams ==
    LET ip == <<192, 168, 0, 123>>
        mac == <<170, 187, 204, 221, 238, 255>>
    IN  {CardInfo(Header, 2, 1, i, m) : i \in Ips, m \in Macs}
            \cup {CardInfo(h, 2, 1, ip, mac) : h \in Headers}
            \cup {CardInfo(Header, d, c, ip, mac) : d \in {1, 2}, c \in {1, 4}}
            \cup {SubSeq(CardInfo(Header, 2, 1, ip, mac), 1, n) : n \in Lengths}

InitDiscovery == Init

ReceiveDatagram ==
    /\ \E msg \in InboundDatagrams, address \in Ips : HandleIncommingMessage(msg, address)
    /\ UNCHANGED <<coreVars, watchVars>>

NextDiscovery ==
    \/ StartDiscovering
    \/ StopDiscovering
    \/ BroadcastIntervalFires
    \/ DestroyDiscovery
    \/ DestroyCard
    \/ SetOnCardDiscovered
    \/ ReceiveDatagram

SpecDiscovery == InitDiscovery /\ [][NextDiscovery]_vars

(***************************************************************************)
(* C11: each (ip, mac) pair is emitted at most once in the lifetime of the *)
(* NetworkDiscovery, whatever datagrams arrive and whatever start, stop    *)
(* and destroy calls are made: no two Cards are made for one pair and      *)
(* onCardDiscovered is not invoked twice for one pair.                     *)
(***************************************************************************)
EachPairEmittedOnce ==
    /\ \A i, j \in DOMAIN cards :
           (cards[i].ip = cards[j].ip /\ cards[i].mac = cards[j].mac) => i = j
    /\ \A i, j \in DOMAIN discovery.emitted :
           (/\ discovery.emitted[i].ip = discovery.emitted[j].ip
            /\ discovery.emitted[i].mac = discovery.emitted[j].mac) => i = j

(***************************************************************************)
(* C12: a datagram is accepted only if its first 6 bytes are FC1307, byte  *)
(* 6 is 2 and byte 7 is 1: every datagram that was handed to parseCardInfo, *)
(* where Cards are made and onCardDiscovered is called, began with these   *)
(* eight bytes.                                                            *)
(***************************************************************************)
AcceptedOnlyWithHeader ==
    \A m \in discovery.accepted : m = Header \o <<2, 1>>

(***************************************************************************)
(* C13: after stopDiscovering no probe is sent until startDiscovering is   *)
(* called again: every probe is sent by startDiscovering or by the         *)
(* interval while the NetworkDiscovery holds one.                          *)
(***************************************************************************)
NoProbeAfterStop ==
    \A p \in discovery.probes : p.discovering

(***************************************************************************)
(* C14: a destroyed Card is unsubscribed from the UdpServer: no handler of *)
(* it is held for its ip and no datagram is handed to it any more.         *)
(***************************************************************************)
DestroyedCardUnsubscribed ==
    \A c \in DOMAIN cards :
        cards[c].destroyed =>
            /\ ~(cards[c].ip \in DOMAIN udpServer.subscribers
                 /\ udpServer.subscribers[cards[c].ip] = c)
            /\ ~cards[c].receivedDestroyed

(***************************************************************************)
(* JavaScript objects used as maps: the properties in insertion order,     *)
(* which is the order for-in visits the keys that are no array indices.    *)
(***************************************************************************)
ObjHas(o, k) == \E i \in DOMAIN o : o[i].key = k

ObjGet(o, k) == o[CHOOSE i \in DOMAIN o : o[i].key = k].value

ObjSet(o, k, v) ==
    IF ObjHas(o, k)
    THEN [i \in DOMAIN o |-> IF o[i].key = k THEN [key |-> k, value |-> v] ELSE o[i]]
    ELSE Append(o, [key |-> k, value |-> v])

ObjDelete(o, k) == SelectSeq(o, LAMBDA p : p.key # k)

ObjKeys(o) == [i \in DOMAIN o |-> o[i].key]

(***************************************************************************)
(* Directory.list(true).  The call replaces entries by a new empty array   *)
(* and awaits volume.listFolder; when that returns it pushes the wrapped   *)
(* children on what entries is then, and returns entries.                  *)
(***************************************************************************)
\* up to the await: by is the method that awaits the list
ListBegin(d, by) ==
    [d EXCEPT !.isNull = FALSE, !.entries = <<>>, !.lists[by] = @ + 1]

\* new Directory(fsAdapter, path + "/" + name, file) or new File(fsAdapter, file):
\* the object, with the getters of its definition
Wrap(file) ==
    [class |-> IF file.isDirectory THEN "Directory" ELSE "File",
     name |-> file.name, size |-> file.size, modificationTime |-> file.modificationTime,
     isDirectory |-> file.isDirectory]

\* the loop that pushes the wrapped children on entries
Pushed(entries, files) == entries \o [i \in DOMAIN files |-> Wrap(files[i])]

\* after the await: files is what volume.listFolder returned
ListEnd(d, by, files) ==
    [d EXCEPT !.entries = Pushed(@, files), !.lists[by] = @ - 1]

\* .filter((entry) => entry instanceof File)
FilesOf(entries) == SelectSeq(entries, LAMBDA entry : entry.class = "File")

(***************************************************************************)
(* WatchDirectory.detectChanges after its await, for the files listed.     *)
(***************************************************************************)
\* currentFiles[name]: the last of the files of that name
CurrentFile(files, name) ==
    files[CHOOSE i \in DOMAIN files :
              /\ files[i].name = name
              /\ \A j \in DOMAIN files : files[j].name = name => j <= i]

InCurrentFiles(files, name) == \E i \in DOMAIN files : files[i].name = name

\* the first loop: known files that changed, and files that are not known
RECURSIVE CheckFiles(_, _, _)
CheckFiles(w, files, now) ==
    IF files = <<>> THEN w
    ELSE LET file == Head(files)
             known == ObjHas(w.alreadyDiscoveredFiles, file.name)
             existingFile == ObjGet(w.alreadyDiscoveredFiles, file.name)
             unstable == ObjHas(w.unstableFiles, file.name)
             unstableFile == ObjGet(w.unstableFiles, file.name)
         IN  CheckFiles(
                 IF known
                 THEN IF existingFile.modificationTime # file.modificationTime
                         \/ existingFile.size # file.size
                      THEN [w EXCEPT !.modifiedFiles = Append(@, file),
                                     !.alreadyDiscoveredFiles = ObjSet(@, file.name, file)]
                      ELSE w
                 ELSE IF ~unstable \/ unstableFile.size # file.size
                      THEN [w EXCEPT !.unstableFiles =
                                ObjSet(@, file.name, [size |-> file.size, detectedAt |-> now])]
                      ELSE w,
                 Tail(files), now)

\* now - unstableFile.detectedAt > this.checkInterval * 2
StableLongEnough(now, detectedAt, checkInterval) == now - detectedAt > checkInterval * 2

\* the second loop, over the names that were unstable when it began
RECURSIVE CheckUnstable(_, _, _, _)
CheckUnstable(w, keys, files, now) ==
    IF keys = <<>> THEN w
    ELSE LET fileName == Head(keys)
             unstableFile == ObjGet(w.unstableFiles, fileName)
             present == InCurrentFiles(files, fileName)
             currentFile == CurrentFile(files, fileName)
         IN  CheckUnstable(
                 IF present /\ unstableFile.size = currentFile.size
                 THEN IF StableLongEnough(now, unstableFile.detectedAt, w.checkInterval)
                      THEN [w EXCEPT !.newFiles = Append(@, currentFile),
                                     !.alreadyDiscoveredFiles =
                                         ObjSet(@, fileName, currentFile),
                                     !.unstableFiles = ObjDelete(@, fileName)]
                      ELSE w
                 ELSE IF ~present
                      THEN [w EXCEPT !.unstableFiles = ObjDelete(@, fileName)]
                      ELSE w,
                 Tail(keys), files, now)

\* the third loop, over the names that were known when it began
RECURSIVE CheckRemoved(_, _, _)
CheckRemoved(w, keys, files) ==
    IF keys = <<>> THEN w
    ELSE LET fileName == Head(keys)
         IN  CheckRemoved(
                 IF ~InCurrentFiles(files, fileName)
                 THEN [w EXCEPT !.removedFiles =
                                    Append(@, ObjGet(w.alreadyDiscoveredFiles, fileName)),
                                !.alreadyDiscoveredFiles = ObjDelete(@, fileName)]
                 ELSE w,
                 Tail(keys), files)

\* the three loops; newFiles, modifiedFiles and removedFiles are its locals
Classified(w, files, now) ==
    LET w0 == [alreadyDiscoveredFiles |-> w.alreadyDiscoveredFiles,
               unstableFiles |-> w.unstableFiles, checkInterval |-> w.checkInterval,
               newFiles |-> <<>>, modifiedFiles |-> <<>>, removedFiles |-> <<>>]
        w1 == CheckFiles(w0, files, now)
        w2 == CheckUnstable(w1, ObjKeys(w1.unstableFiles), files, now)
    IN  CheckRemoved(w2, ObjKeys(w2.alreadyDiscoveredFiles), files)

CallsOf(cb, files) == [i \in DOMAIN files |-> [cb |-> cb, name |-> files[i].name]]

DispatchedModifiedFirst(newFiles, modifiedFiles, removedFiles) ==
    CallsOf("onFileModified", modifiedFiles) \o CallsOf("onNewFile", newFiles)
        \o CallsOf("onFileRemoved", removedFiles)

\* the three forEach at the end: the calls made, in order
Dispatched(newFiles, modifiedFiles, removedFiles) ==
    CallsOf("onNewFile", newFiles) \o CallsOf("onFileModified", modifiedFiles)
        \o CallsOf("onFileRemoved", removedFiles)

\* detectChanges for the files listed: lastPass, calls and passes are history
DetectChanges(w, files, now) ==
    LET c == Classified(w, files, now)
        made == Dispatched(c.newFiles, c.modifiedFiles, c.removedFiles)
        pass == w.passes + 1
    IN  [w EXCEPT !.alreadyDiscoveredFiles = c.alreadyDiscoveredFiles,
                  !.unstableFiles = c.unstableFiles,
                  !.passes = pass,
                  !.lastPass = [files |-> files, at |-> now, calls |-> made,
                                before |-> [alreadyDiscoveredFiles |-> w.alreadyDiscoveredFiles,
                                            unstableFiles |-> w.unstableFiles,
                                            checkInterval |-> w.checkInterval],
                                after |-> [alreadyDiscoveredFiles |-> c.alreadyDiscoveredFiles,
                                           unstableFiles |-> c.unstableFiles]],
                  !.calls = @ \o [i \in DOMAIN made |->
                                     [cb |-> made[i].cb, name |-> made[i].name,
                                      pass |-> pass, at |-> now, start |-> w.starts,
                                      callbacks |-> w.callbacks]]]

\* initExistingFiles that seeds nothing
NotSeeded(w, files) == w

\* initExistingFiles after its await
RECURSIVE InitExistingFiles(_, _)
InitExistingFiles(w, files) ==
    IF files = <<>> THEN w
    ELSE InitExistingFiles(
             [w EXCEPT !.alreadyDiscoveredFiles = ObjSet(@, Head(files).name, Head(files))],
             Tail(files))

(***************************************************************************)
(* A WatchDirectory on one folder of the card.  The clock is Date.now() in *)
(* milliseconds and advances by TimeUnit; an interval fires when it is     *)
(* due; list calls return in any order, as the card's answers do, and at   *)
(* most MaxLate of them are still awaited when the clock advances;         *)
(* pictures are written to the folder and deleted from it while it is      *)
(* watched.                                                                *)
(***************************************************************************)
MaxLate == 1
MaxTime == 3000
MaxChanges == 2
MaxWatcherStarts == 1
FileNames == {"a.jpg", "b.jpg"}
FileSizes == {1000, 1500}
CheckIntervals == {1000}
TimeUnit == CHOOSE t \in CheckIntervals : \A u \in CheckIntervals : t <= u

SubDirectory == [name |-> "100CANON", size |-> 0, modificationTime |-> 0, isDirectory |-> TRUE]

Picture(name, size, time) ==
    [name |-> name, size |-> size, modificationTime |-> time, isDirectory |-> FALSE]

Present(children) == {children[i].name : i \in {j \in DOMAIN children : ~children[j].isDirectory}}

\* start(interval)
WatcherStart(interval) ==
    /\ watcher.starts < MaxWatcherStarts
    /\ LET timer == watcher.timersSet + 1
       IN  watcher' = [watcher EXCEPT
               !.checkInterval = interval,
               !.timers = Put(IF watcher.interval # 0 /\ watcher.interval \in DOMAIN @
                              THEN Remove(@, watcher.interval) ELSE @,
                              timer, [period |-> interval, due |-> clock + interval]),
               !.interval = timer,
               !.timersSet = timer,
               !.destroyed = FALSE,
               !.starts = @ + 1]
    /\ directory' = ListBegin(ListBegin(directory, "initExistingFiles"), "detectChanges")
    /\ folder' = [folder EXCEPT !.sinceStart = Present(folder.children)]
    /\ UNCHANGED <<coreVars, discVars, clock>>

\* destroy(), called once by the user of a started watcher
WatcherDestroy ==
    /\ watcher.starts > 0
    /\ ~watcher.destroyed
    /\ watcher' = [watcher EXCEPT
           !.timers = IF watcher.interval # 0 /\ watcher.interval \in DOMAIN @
                      THEN Remove(@, watcher.interval) ELSE @,
           !.interval = 0,
           !.callbacks = "default",
           !.alreadyDiscoveredFiles = <<>>,
           !.unstableFiles = <<>>,
           !.destroyed = TRUE]
    /\ UNCHANGED <<coreVars, discVars, folder, directory, clock>>

\* the interval set by start() fires: detectChanges up to its await
IntervalFires(timer) ==
    /\ timer \in DOMAIN watcher.timers
    /\ watcher.timers[timer].due <= clock
    /\ watcher' = [watcher EXCEPT !.timers[timer].due = @ + watcher.timers[timer].period]
    /\ directory' = ListBegin(directory, "detectChanges")
    /\ UNCHANGED <<coreVars, discVars, folder, clock>>

Awaited(d) == d.lists.initExistingFiles + d.lists.detectChanges

\* time passes once the intervals that are due have fired
Tick ==
    /\ clock < MaxTime
    /\ watcher.starts > 0
    /\ Awaited(directory) <= MaxLate
    /\ \A timer \in DOMAIN watcher.timers : watcher.timers[timer].due > clock
    /\ clock' = clock + TimeUnit
    /\ directory' = [directory EXCEPT !.late = @ \/ Awaited(directory) > 0]
    /\ UNCHANGED <<coreVars, discVars, folder, watcher>>

\* volume.listFolder returns to a list call, which returns to by
ListReturns(by) ==
    /\ directory.lists[by] > 0
    /\ LET d == ListEnd(directory, by, folder.children)
           files == FilesOf(d.entries)
       IN  /\ directory' = d
           /\ watcher' = IF by = "initExistingFiles"
                         THEN InitExistingFiles(watcher, files)
                         ELSE DetectChanges(watcher, files, clock)
    /\ UNCHANGED <<coreVars, discVars, folder, clock>>

\* the camera writes a picture: a new one, or more of one that is there
WritePicture(name, size) ==
    /\ folder.changes < MaxChanges
    /\ watcher.starts > 0
    /\ folder' = [folder EXCEPT
           !.changes = @ + 1,
           !.children =
               IF name \in Present(@)
               THEN [i \in DOMAIN @ |-> IF @[i].name = name /\ ~@[i].isDirectory
                                        THEN Picture(name, size, clock) ELSE @[i]]
               ELSE Append(@, Picture(name, size, clock))]
    /\ UNCHANGED <<coreVars, discVars, directory, watcher, clock>>

\* a picture is deleted on the card
DeletePicture(name) ==
    /\ folder.changes < MaxChanges
    /\ watcher.starts > 0
    /\ name \in Present(folder.children)
    /\ folder' = [folder EXCEPT
           !.changes = @ + 1,
           !.children = SelectSeq(@, LAMBDA child : child.name # name),
           !.sinceStart = @ \ {name}]
    /\ UNCHANGED <<coreVars, discVars, directory, watcher, clock>>

\* the folder holds a subdirectory and any of the pictures when it is watched
WatchedFolders ==
    {[children |-> <<SubDirectory>> \o files, changes |-> 0, sinceStart |-> {}] :
        files \in {<<>>, <<Picture("a.jpg", 1000, 0)>>,
                   <<Picture("a.jpg", 1000, 0), Picture("b.jpg", 1500, 0)>>}}

InitWatcher ==
    /\ CardFieldsInit
    /\ disk = <<>>
    /\ volume = NoVolume
    /\ initialised = "pending"
    /\ waiters = <<>>
    /\ tasks = <<>>
    /\ DiscoveryAppInit
    /\ folder \in WatchedFolders
    /\ directory = DirectoryInit
    /\ watcher = WatcherInit
    /\ clock = 0

NextWatcher ==
    \/ \E interval \in CheckIntervals : WatcherStart(interval)
    \/ WatcherDestroy
    \/ \E timer \in 1..MaxWatcherStarts : IntervalFires(timer)
    \/ Tick
    \/ \E by \in {"initExistingFiles", "detectChanges"} : ListReturns(by)
    \/ \E name \in FileNames, size \in FileSizes : WritePicture(name, size)
    \/ \E name \in FileNames : DeletePicture(name)

SpecWatcher == InitWatcher /\ [][NextWatcher]_vars

(***************************************************************************)
(* SpecOverlap: the watcher of SpecWatcher on a card so slow that up to    *)
(* MaxOverlap list calls are still awaited when the clock advances: an     *)
(* interval fires whether or not the pass before it has ended.             *)
(***************************************************************************)
MaxOverlap == 2

\* time passes once the intervals that are due have fired
TickOverlapped ==
    /\ clock < MaxTime
    /\ watcher.starts > 0
    /\ Awaited(directory) <= MaxOverlap
    /\ \A timer \in DOMAIN watcher.timers : watcher.timers[timer].due > clock
    /\ clock' = clock + TimeUnit
    /\ directory' = [directory EXCEPT !.late = @ \/ Awaited(directory) > 0]
    /\ UNCHANGED <<coreVars, discVars, folder, watcher>>

NextOverlap ==
    \/ \E interval \in CheckIntervals : WatcherStart(interval)
    \/ \E timer \in 1..MaxWatcherStarts : IntervalFires(timer)
    \/ TickOverlapped
    \/ \E by \in {"initExistingFiles", "detectChanges"} : ListReturns(by)
    \/ \E name \in FileNames, size \in FileSizes : WritePicture(name, size)

SpecOverlap == InitWatcher /\ [][NextOverlap]_vars

\* what volume.listFolder returns for the folder as it is: its files, wrapped
ListedNow == FilesOf(Pushed(<<>>, folder.children))

\* the onFileModified calls of the pass that has just ended for name
ModifiedIn(pass, name) ==
    Cardinality({i \in DOMAIN pass.calls :
                    pass.calls[i].cb = "onFileModified" /\ pass.calls[i].name = name})

\* a detection pass ends: for every file that is known and listed,
\* onFileModified is invoked once if its date or size differs from the
\* stored entry and not at all if they are the same, and the stored entry
\* is then the listed one
PassReportsTheDifference ==
    watcher'.passes = watcher.passes + 1 =>
        \A name \in FileNames :
            (ObjHas(watcher.alreadyDiscoveredFiles, name) /\ InCurrentFiles(ListedNow, name)) =>
                LET stored == ObjGet(watcher.alreadyDiscoveredFiles, name)
                    listed == CurrentFile(ListedNow, name)
                    differs == \/ stored.modificationTime # listed.modificationTime
                               \/ stored.size # listed.size
                IN  /\ ModifiedIn(watcher'.lastPass, name) = (IF differs THEN 1 ELSE 0)
                    /\ ObjGet(watcher'.alreadyDiscoveredFiles, name) = listed

\* C36: for a file in known, a detection pass reports onFileModified
\* exactly when the listed file's modification date or size differs from
\* the stored entry, and then stores the listed one: a change is reported
\* by one pass, and a pass that sees the stored date and size reports
\* nothing for the file.
ModifiedExactlyWhenDiffers == [][PassReportsTheDifference]_vars

\* the same, for the passes whose list call returned the folder's listing
\* and nothing before it
ModifiedExactlyWhenDiffersInListing ==
    [][FilesOf(directory'.entries) = ListedNow => PassReportsTheDifference]_vars

\* C15: no file name is at once a key of alreadyDiscoveredFiles and a key
\* of unstableFiles, in whatever order the list of initExistingFiles and
\* the lists of the detection passes return.
KnownOrUnstable ==
    \A name \in FileNames :
        ~(ObjHas(watcher.alreadyDiscoveredFiles, name) /\ ObjHas(watcher.unstableFiles, name))

\* C18: a file that was in the folder when start() was called and has been
\* there ever since is never reported through onNewFile, in whatever order
\* the list of initExistingFiles and the list of the first pass return.
SeededNeverNew ==
    \A i \in DOMAIN watcher.calls :
        watcher.calls[i].cb = "onNewFile" => watcher.calls[i].name \notin folder.sinceStart

\* the last detection pass reported name through cb
Reported(cb, name) ==
    /\ watcher.lastPass # <<>>
    /\ \E i \in DOMAIN watcher.lastPass.calls :
           watcher.lastPass.calls[i] = [cb |-> cb, name |-> name]

\* the last detection pass reported name as new: it was unstable before the
\* pass, is listed with the size recorded then, and that size had been
\* recorded for more than twice the check interval
NewOnlyWhenStable ==
    \A name \in FileNames :
        Reported("onNewFile", name) =>
            LET p == watcher.lastPass
            IN  /\ ObjHas(p.before.unstableFiles, name)
                /\ InCurrentFiles(p.files, name)
                /\ CurrentFile(p.files, name).size = ObjGet(p.before.unstableFiles, name).size
                /\ p.at - ObjGet(p.before.unstableFiles, name).detectedAt
                       > 2 * p.before.checkInterval
                /\ ObjHas(p.after.alreadyDiscoveredFiles, name)
                /\ ~ObjHas(p.after.unstableFiles, name)

\* the last detection pass listed an unstable file with another size than
\* the one recorded
SawSizeChange(name) ==
    /\ watcher.lastPass # <<>>
    /\ ObjHas(watcher.lastPass.before.unstableFiles, name)
    /\ InCurrentFiles(watcher.lastPass.files, name)
    /\ CurrentFile(watcher.lastPass.files, name).size
           # ObjGet(watcher.lastPass.before.unstableFiles, name).size

SizeChangeRestartsClock ==
    \A name \in FileNames :
        SawSizeChange(name) =>
            /\ ObjHas(watcher.lastPass.after.unstableFiles, name)
            /\ ObjGet(watcher.lastPass.after.unstableFiles, name)
                   = [size |-> CurrentFile(watcher.lastPass.files, name).size,
                      detectedAt |-> watcher.lastPass.at]

\* C16: a name is reported through onNewFile, and moved from unstableFiles
\* to alreadyDiscoveredFiles, only in a pass that lists the file with the
\* size recorded in unstableFiles more than 2 * checkInterval after that
\* size was recorded; and a pass that lists an unstable file with another
\* size records the new size with the time of the pass.
StableBeforeNew == NewOnlyWhenStable /\ SizeChangeRestartsClock

\* the last detection pass found name in alreadyDiscoveredFiles and not in
\* its listing
KnownAndGone(name) ==
    /\ watcher.lastPass # <<>>
    /\ ObjHas(watcher.lastPass.before.alreadyDiscoveredFiles, name)
    /\ ~InCurrentFiles(watcher.lastPass.files, name)

\* the last detection pass found name in unstableFiles and not in its listing
UnstableAndGone(name) ==
    /\ watcher.lastPass # <<>>
    /\ ObjHas(watcher.lastPass.before.unstableFiles, name)
    /\ ~InCurrentFiles(watcher.lastPass.files, name)

\* how many calls of cb for name the last detection pass made
TimesReported(cb, name) ==
    Cardinality({i \in DOMAIN watcher.lastPass.calls :
                     watcher.lastPass.calls[i] = [cb |-> cb, name |-> name]})

\* a known name that a pass finds gone is reported removed once by that
\* pass and is no longer known after it, and no other name is reported
\* removed
RemovedReportedOnce ==
    \A name \in FileNames :
        /\ KnownAndGone(name) =>
               /\ TimesReported("onFileRemoved", name) = 1
               /\ ~ObjHas(watcher.lastPass.after.alreadyDiscoveredFiles, name)
        /\ (watcher.lastPass # <<>> /\ ~KnownAndGone(name)) =>
               TimesReported("onFileRemoved", name) = 0

\* an unstable name that a pass finds gone is dropped by that pass without
\* a callback for it
UnstableDroppedSilently ==
    \A name \in FileNames :
        UnstableAndGone(name) =>
            /\ ~ObjHas(watcher.lastPass.after.unstableFiles, name)
            /\ \A i \in DOMAIN watcher.lastPass.calls : watcher.lastPass.calls[i].name # name

\* C19: a detection pass reports every name of alreadyDiscoveredFiles that
\* its listing lacks through onFileRemoved once and drops it, so that no
\* later pass reports it again, and drops every name of unstableFiles that
\* its listing lacks without any callback.
GoneReportedOrDropped == RemovedReportedOnce /\ UnstableDroppedSilently

\* new before modified before removed
Rank(cb) == CASE cb = "onNewFile" -> 1 [] cb = "onFileModified" -> 2 [] cb = "onFileRemoved" -> 3

\* C20: of the calls one detection pass makes, every onNewFile comes before
\* every onFileModified, and both come before every onFileRemoved.
NewThenModifiedThenRemoved ==
    \A i, j \in DOMAIN watcher.calls :
        (i < j /\ watcher.calls[i].pass = watcher.calls[j].pass) =>
            Rank(watcher.calls[i].cb) <= Rank(watcher.calls[j].cb)

\* one pass reported a new file and a modified file
NewAndModifiedInOnePass ==
    \E name, other \in FileNames : Reported("onNewFile", name) /\ Reported("onFileModified", other)

(***************************************************************************)
(* The ramp of a.jpg: the folder holds a.jpg with 1000 B when start(1000)  *)
(* is called, and a.jpg has 1500 B from the first interval pass on.        *)
(***************************************************************************)
RampFolder ==
    [children |-> <<SubDirectory, Picture("a.jpg", 1000, 0)>>, changes |-> 0, sinceStart |-> {}]

\* a.jpg grows when the first interval is due, before that pass begins
GrowPicture ==
    /\ folder.changes = 0
    /\ clock = watcher.checkInterval
    /\ \E timer \in DOMAIN watcher.timers : watcher.timers[timer].due <= clock
    /\ WritePicture("a.jpg", 1500)

InitRamp ==
    /\ InitWatcher
    /\ folder = RampFolder

NextRamp ==
    \/ WatcherStart(1000)
    \/ \E timer \in 1..MaxWatcherStarts : IntervalFires(timer)
    \/ Tick
    \/ \E by \in {"initExistingFiles", "detectChanges"} : ListReturns(by)
    \/ GrowPicture

SpecRamp == InitRamp /\ [][NextRamp]_vars

\* the calls of cb for name made so far, as the times of their passes
CallsAt(cb, name) ==
    [i \in 1..Len(SelectSeq(watcher.calls, LAMBDA c : c.cb = cb /\ c.name = name)) |->
        SelectSeq(watcher.calls, LAMBDA c : c.cb = cb /\ c.name = name)[i].at]

\* the pass of t=3000 is over, a.jpg grew before the pass of t=1000, and
\* every listing returned in the instant it was asked for
RampDone ==
    /\ watcher.starts = 1
    /\ clock = 3 * watcher.checkInterval
    /\ \A timer \in DOMAIN watcher.timers : watcher.timers[timer].due > clock
    /\ Awaited(directory) = 0
    /\ ~directory.late
    /\ folder.changes = 1

\* C17 as stated: after the ramp onNewFile was invoked for a.jpg once, by
\* the pass of t=3000, and onFileModified was never invoked for a.jpg.
RampReportedNew ==
    RampDone =>
        /\ CallsAt("onNewFile", "a.jpg") = <<3000>>
        /\ CallsAt("onFileModified", "a.jpg") = <<>>

\* C17: after the ramp, every listing having returned in the instant it was
\* asked for, onFileModified was invoked for a.jpg once, by the pass of
\* t=1000, and onNewFile was never invoked for a.jpg, whichever of the two
\* listings asked for by start() returned first.
RampReportedModified ==
    RampDone =>
        /\ CallsAt("onFileModified", "a.jpg") = <<1000>>
        /\ CallsAt("onNewFile", "a.jpg") = <<>>

\* the ramp is over and the first pass had returned before the seeding
RampDoneAfterRace == RampDone /\ ObjHas(watcher.unstableFiles, "a.jpg")

\* C21: once destroy() has returned no interval of the watcher is left, both
\* alreadyDiscoveredFiles and unstableFiles are empty, and no callback of
\* the user is called, also when a listing was awaited at the time.
DestroyedStaysEmpty ==
    watcher.destroyed =>
        /\ watcher.timers = <<>>
        /\ watcher.alreadyDiscoveredFiles = <<>>
        /\ watcher.unstableFiles = <<>>
        /\ watcher.callbacks = "default"

\* C22: no detection pass is begun while another pass of the watcher still
\* awaits its listing.
OnePassAtATime == directory.lists.detectChanges <= 1

(***************************************************************************)
(* A Directory used directly: list, getFile and getDirectory, called while *)
(* earlier calls may still await volume.listFolder.  Names are sequences   *)
(* of UTF-16 code units.                                                   *)
(***************************************************************************)
MaxDirectoryCalls == 3

\* String.prototype.toUpperCase for one code unit below 256: the sharp s
\* becomes SS, and y with diaeresis leaves the range
UpperOf(c) ==
    IF c \in 97..122 THEN <<c - 32>>
    ELSE IF c = 223 THEN <<83, 83>>
    ELSE IF c = 255 THEN <<376>>
    ELSE IF c \in 224..254 /\ c # 247 THEN <<c - 32>>
    ELSE <<c>>

RECURSIVE ToUpperCase(_)
ToUpperCase(name) ==
    IF name = <<>> THEN <<>> ELSE UpperOf(Head(name)) \o ToUpperCase(Tail(name))

\* FAT32Adapter.compareNames
CompareNames(name1, name2) == ToUpperCase(name1) = ToUpperCase(name2)

\* the first entry of that class whose name compares equal, or 0
FirstMatch(entries, class, name) ==
    LET matches == {i \in DOMAIN entries :
                        entries[i].class = class /\ CompareNames(entries[i].name, name)}
    IN  IF matches = {} THEN 0 ELSE CHOOSE i \in matches : \A j \in matches : i <= j

\* what the call gives its caller once list() has given it listed
ResultOf(call, listed) ==
    IF call.op = "list" THEN [outcome |-> "ok", value |-> listed]
    ELSE LET class == IF call.op = "getFile" THEN "File" ELSE "Directory"
             i == FirstMatch(listed, class, call.name)
         IN  IF i # 0 THEN [outcome |-> "ok", value |-> listed[i]]
             ELSE [outcome |-> IF call.op = "getFile" THEN "FileNotFoundError"
                               ELSE "DirectoryNotFoundError",
                   value |-> <<>>]

\* list(refresh), or the list() of getFile(name) and getDirectory(name), up
\* to its await, or to its end when the cache answers
DirectoryCall(op, name, refresh) ==
    /\ directory.begun < MaxDirectoryCalls
    /\ LET call == [op |-> op, name |-> name, refresh |-> refresh,
                    hit |-> ~directory.isNull /\ ~refresh,
                    cacheBefore |-> directory.entries]
       IN  IF call.hit
           THEN directory' = [directory EXCEPT
                    !.begun = @ + 1,
                    !.returned = [call |-> call, listFolderCalls |-> 0, listing |-> <<>>,
                                  listed |-> directory.entries,
                                  cacheAfter |-> directory.entries,
                                  result |-> ResultOf(call, directory.entries)]]
           ELSE directory' = [directory EXCEPT
                    !.begun = @ + 1,
                    !.isNull = FALSE,
                    !.entries = <<>>,
                    !.pending = Put(@, directory.begun + 1, call)]
    /\ UNCHANGED <<coreVars, discVars, folder, watcher, clock>>

\* volume.listFolder returns to a call of the user
ListFolderReturns(id) ==
    /\ id \in DOMAIN directory.pending
    /\ LET call == directory.pending[id]
           listed == Pushed(directory.entries, folder.children)
       IN  directory' = [directory EXCEPT
               !.entries = listed,
               !.pending = Remove(@, id),
               !.returned = [call |-> call, listFolderCalls |-> 1,
                             listing |-> folder.children, listed |-> listed,
                             cacheAfter |-> listed,
                             result |-> ResultOf(call, listed)]]
    /\ UNCHANGED <<coreVars, discVars, folder, watcher, clock>>

\* volume.listFolder fails, and so does the call of the user
ListFolderFails(id) ==
    /\ id \in DOMAIN directory.pending
    /\ directory' = [directory EXCEPT
           !.pending = Remove(@, id),
           !.returned = [call |-> directory.pending[id], listFolderCalls |-> 1,
                         listing |-> <<>>, listed |-> <<>>,
                         cacheAfter |-> directory.entries,
                         result |-> [outcome |-> "rejected", value |-> <<>>]]]
    /\ UNCHANGED <<coreVars, discVars, folder, watcher, clock>>

\* a child of the folder on the card
Child(name, isDirectory) ==
    [name |-> name, size |-> 0, modificationTime |-> 0, isDirectory |-> isDirectory]

\* a, A, the sharp s, SS and e with acute, as files and directories
Children ==
    {Child(<<97>>, FALSE), Child(<<65>>, TRUE), Child(<<223>>, FALSE),
     Child(<<83, 83>>, FALSE), Child(<<233>>, TRUE)}

\* A, SS, E with acute and B
AskedNames == {<<65>>, <<83, 83>>, <<201>>, <<66>>}

\* the camera or the computer adds a child to the folder
NewChild(child) ==
    /\ folder.changes < 1
    /\ folder' = [folder EXCEPT !.changes = @ + 1, !.children = Append(@, child)]
    /\ UNCHANGED <<coreVars, discVars, directory, watcher, clock>>

InitDirectory ==
    /\ CardFieldsInit
    /\ disk = <<>>
    /\ volume = NoVolume
    /\ initialised = "pending"
    /\ waiters = <<>>
    /\ tasks = <<>>
    /\ DiscoveryAppInit
    /\ folder \in {[children |-> children, changes |-> 0, sinceStart |-> {}] :
                      children \in {<<>>} \cup {<<c>> : c \in Children}
                                       \cup {<<c, d>> : c, d \in Children}}
    /\ directory = DirectoryInit
    /\ watcher = WatcherInit
    /\ clock = 0

NextDirectory ==
    \/ \E refresh \in BOOLEAN : DirectoryCall("list", <<>>, refresh)
    \/ \E name \in AskedNames : DirectoryCall("getFile", name, FALSE)
    \/ \E name \in AskedNames : DirectoryCall("getDirectory", name, FALSE)
    \/ \E id \in 1..MaxDirectoryCalls : ListFolderReturns(id)
    \/ \E id \in 1..MaxDirectoryCalls : ListFolderFails(id)
    \/ \E child \in Children : NewChild(child)

SpecDirectory == InitDirectory /\ [][NextDirectory]_vars

\* a call of the user has returned
HasReturned == directory.returned # <<>> /\ directory.returned.result.outcome # "rejected"

\* C23: a list without refresh on a Directory that has a cache returns the
\* cache and does not call volume.listFolder; any other list calls it once,
\* and returns and caches the wrapped children it listed, in their order.
ListReturnsCacheOrListing ==
    (HasReturned /\ directory.returned.call.op = "list") =>
        LET r == directory.returned
        IN  IF r.call.hit
            THEN r.listFolderCalls = 0 /\ r.result.value = r.call.cacheBefore
            ELSE /\ r.listFolderCalls = 1
                 /\ r.result.value = Pushed(<<>>, r.listing)
                 /\ r.cacheAfter = Pushed(<<>>, r.listing)

\* a-z to A-Z and nothing else
AsciiUpper(name) == [i \in DOMAIN name |-> IF name[i] \in 97..122 THEN name[i] - 32 ELSE name[i]]

\* the children of that class whose name equals name but for the case of
\* its ASCII letters
AsciiMatches(listed, class, name) ==
    {i \in DOMAIN listed :
        listed[i].class = class /\ AsciiUpper(listed[i].name) = AsciiUpper(name)}

\* getFile, or getDirectory, found the first child of its class that has
\* the name but for the case of ASCII letters, and failed if there is none
FoundFirstOf(op, class, error) ==
    (directory.returned # <<>> /\ directory.returned.call.op = op
        /\ directory.returned.result.outcome # "rejected") =>
        LET r == directory.returned
            matches == AsciiMatches(r.listed, class, r.call.name)
        IN  IF matches = {}
            THEN r.result.outcome = error
            ELSE /\ r.result.outcome = "ok"
                 /\ r.result.value = r.listed[CHOOSE i \in matches : \A j \in matches : i <= j]

\* C24: getFile(name) returns the first File of list() whose name is name
\* but for the case of ASCII letters, and fails with FileNotFoundError if
\* there is none; getDirectory(name) does the same with the Directory
\* children and DirectoryNotFoundError.
FirstChildOfThatName ==
    /\ FoundFirstOf("getFile", "File", "FileNotFoundError")
    /\ FoundFirstOf("getDirectory", "Directory", "DirectoryNotFoundError")

\* the children of the folder before the one that was added, if any
ChildrenAtFirst ==
    IF folder.changes = 0 THEN folder.children
    ELSE SubSeq(folder.children, 1, Len(folder.children) - 1)

\* C37: every result of list() is the listing of the folder, as it is or as
\* it was, each child once and in order, also when list calls overlap: none
\* is empty or partial, none has a child twice
ListIsTheListing ==
    (HasReturned /\ directory.returned.call.op = "list") =>
        directory.returned.result.value
            \in {Pushed(<<>>, folder.children), Pushed(<<>>, ChildrenAtFirst)}

\* the same for the list calls that neither begin nor return while another
\* call awaits the volume
ListIsTheListingAlone ==
    (/\ HasReturned
     /\ directory.returned.call.op = "list"
     /\ directory.begun = 1) =>
        directory.returned.result.value
            \in {Pushed(<<>>, folder.children), Pushed(<<>>, ChildrenAtFirst)}

\* C38: when volume.listFolder fails during the only call made so far, the
\* cache is as it was before the call, still null, so that the next list()
\* asks the volume again
FailedListLeavesCache ==
    (/\ directory.begun = 1
     /\ directory.returned # <<>>
     /\ directory.returned.result.outcome = "rejected") =>
        /\ directory.isNull
        /\ directory.entries = directory.returned.call.cacheBefore

\* a list() after a failed one has returned nothing for a folder with a child
EmptyAfterFailure ==
    /\ directory.begun = 2
    /\ directory.pending = <<>>
    /\ folder.changes = 0
    /\ folder.children # <<>>
    /\ HasReturned
    /\ directory.returned.call.op = "list"
    /\ directory.returned.listFolderCalls = 0
    /\ directory.returned.result.value = <<>>

(***************************************************************************)
(* SpecMBR: getPartitions and Card.getFileSystemAdapter on cards whose     *)
(* partition tables hold empty entries anywhere and every type the reader  *)
(* tells apart.                                                            *)
(***************************************************************************)
\* entry i of a table: the first one is the FAT volume of the disk
TableEntry(i, type) ==
    [type |-> type,
     startLBA |-> IF i = 1 THEN 1 ELSE 2147483647 - i,
     length |-> IF i = 1 THEN 9 ELSE 16777216 * i]

\* tables of empty, FAT32 and Linux entries, and tables of one entry of
\* each type
Tables ==
    {[i \in 1 .. 4 |-> TableEntry(i, types[i])] : types \in [1 .. 4 -> {0, 12, 131}]}
        \cup {[i \in 1 .. 4 |-> TableEntry(i, IF i = 1 THEN type ELSE 0)] :
                 type \in {11, 7, 5, 15, 1, 255}}

MbrDisk(table) == [table |-> table] @@ VolumeDisk

\* the partition a user asks getFileSystemAdapter for
PartitionNumbers == 0 .. 4

InitMBR ==
    /\ CardInit
    /\ disk \in {MbrDisk(table) : table \in Tables}
    /\ volume = NoVolume
    /\ initialised = "pending"
    /\ waiters = <<>>
    /\ tasks = <<>>

\* a user calls getFileSystemAdapter(partition): it runs up to the await in
\* getPartitions
GetFileSystemAdapter(id, partition) ==
    /\ microtasks = <<>>
    /\ id \notin DOMAIN tasks
    /\ AwaitRead(id, Task("getFileSystemAdapter", partition), 0, 1, "readMBRAdapter")
    /\ UNCHANGED <<appVars, lastMsg, disk, volume, initialised, waiters>>

\* partitions.length < partition
PartitionChecked(length, partition) == length < partition

\* getFileSystemAdapter after getPartitions has returned: the constructor of
\* the adapter is task 1
ContinueAdapter ==
    /\ microtasks # <<>>
    /\ Head(microtasks).kind = "task"
    /\ LET id == Head(microtasks).id
           tk == tasks[id]
           r == reads[tk.tid]
           partitions == PartitionsFrom(r.result, 0)
           partition == tk.file
       IN  /\ tk.pc = "readMBRAdapter"
           /\ IF r.pc = "failed"
              THEN /\ Settle(id, [tk EXCEPT !.pc = "failed", !.error = "TimeoutError"])
                   /\ UNCHANGED volume
              ELSE IF ~InRange(r.result, 446, 64)
              THEN /\ Settle(id, [tk EXCEPT !.pc = "failed", !.error = "RangeError"])
                   /\ UNCHANGED volume
              ELSE IF PartitionChecked(Len(partitions), partition)
              THEN /\ Settle(id, [tk EXCEPT !.pc = "failed",
                                            !.error = "partition does not exist"])
                   /\ UNCHANGED volume
              ELSE IF partition + 1 \notin DOMAIN partitions
              THEN /\ Settle(id, [tk EXCEPT !.pc = "failed", !.error = "TypeError"])
                   /\ UNCHANGED volume
              ELSE IF partitions[partition + 1].type # "FAT32"
              THEN /\ Settle(id, [tk EXCEPT !.pc = "failed",
                                            !.error = "UnsupportedFileSystemError"])
                   /\ UNCHANGED volume
              ELSE /\ tasks' = Put(Put(tasks, id, [tk EXCEPT !.pc = "done",
                                                             !.result = partitions[partition + 1]]),
                                   1, [Task("readBIOSParameterBlock", NoFile) EXCEPT
                                          !.pc = "readBPB", !.tid = transferId, !.batch = 1])
                   /\ ReadBinaryData(partitions[partition + 1].startLBA, 1, 1)
                   /\ microtasks' = Rest
                   /\ volume' = [created |-> TRUE, sectorSize |-> 0, sectorsPerCluster |-> 0,
                                 reservedSectors |-> 0, numberOfFATs |-> 0, rootEntCnt |-> 0,
                                 fatSize |-> 0, oneFatSize |-> 0, rootCluster |-> 0,
                                 fatStartLBA |-> 0, firstDataSector |-> 0,
                                 startLBA |-> partitions[partition + 1].startLBA]
    /\ UNCHANGED <<appVars, lastMsg, disk, initialised, waiters>>

NextMBR ==
    \/ GetPartitions(2)
    \/ \E partition \in PartitionNumbers : GetFileSystemAdapter(3, partition)
    \/ CardResponds
    \/ TimeoutFires
    \/ ResumeRead
    \/ ContinueMBR
    \/ ContinueAdapter
    \/ ContinueBPB

SpecMBR == InitMBR /\ [][NextMBR]_vars

\* the tag the reader gives a type code
TagOf(type) ==
    CASE type \in {11, 12} -> "FAT32"
      [] type = 7 -> "NTFS"
      [] type = 131 -> "Linux Filesystem"
      [] type \in {5, 15} -> "Extended Partition"
      [] OTHER -> "Unknown"

\* the entries of the table that are not empty, in table order
RECURSIVE NonEmpty(_)
NonEmpty(table) ==
    IF table = <<>> THEN <<>>
    ELSE (IF Head(table).type # 0
          THEN <<[startLBA |-> Head(table).startLBA, length |-> Head(table).length,
                  type |-> TagOf(Head(table).type)]>>
          ELSE <<>>) \o NonEmpty(Tail(table))

\* C25: getPartitions reads one sector at LBA 0 and returns the entries of
\* the partition table whose type is not 0, in table order, with their
\* start, length and the tag of their type, wherever the empty ones sit.
PartitionsAreNonEmptyEntries ==
    \A id \in DOMAIN tasks :
        tasks[id].op = "getPartitions" =>
            /\ reads[tasks[id].tid].lba = 0 /\ reads[tasks[id].tid].count = 1
            /\ Cardinality({t \in DOMAIN reads : reads[t].owner = id}) = 1
            /\ tasks[id].pc = "done" => tasks[id].result = NonEmpty(disk.table)

\* getPartitions has returned a table with an empty entry before a used one
EmptyEntrySkipped ==
    \E id \in DOMAIN tasks :
        /\ tasks[id].op = "getPartitions" /\ tasks[id].pc = "done"
        /\ \E i, j \in 1 .. 4 : i < j /\ disk.table[i].type = 0 /\ disk.table[j].type # 0

\* C26: getFileSystemAdapter(partition) with partition not below the number
\* of partitions fails with the error that the partition does not exist,
\* makes no adapter and reads nothing but the MBR.
OutOfRangeRejected ==
    \A id \in DOMAIN tasks :
        (/\ tasks[id].op = "getFileSystemAdapter"
         /\ tasks[id].pc \in {"done", "failed"}
         /\ reads[tasks[id].tid].pc = "returned"
         /\ tasks[id].file >= Len(NonEmpty(disk.table))) =>
            /\ tasks[id].pc = "failed"
            /\ tasks[id].error = "partition does not exist"
            /\ ~volume.created
            /\ \A t \in DOMAIN reads : reads[t].lba = 0

(***************************************************************************)
(* SpecCluster: listCluster's parse of one directory cluster.  The cluster *)
(* is a sequence of 32-byte entries: short entries, fragments of long      *)
(* names, free entries and the entry that ends the directory, in any       *)
(* order.  Each entry is given with what it stands for: its kind, the text *)
(* of a fragment up to its first NUL, the 8.3 name of a short entry.       *)
(***************************************************************************)
MaxEntries == 4

\* a fragment of a long name: 13 code units in bytes 1..10, 14..25, 28..31
LfnEntry(first, units) ==
    LET b(i) == <<units[i] % 256, units[i] \div 256>>
    IN  <<first>> \o b(1) \o b(2) \o b(3) \o b(4) \o b(5) \o <<15, 0, 0>>
            \o b(6) \o b(7) \o b(8) \o b(9) \o b(10) \o b(11) \o <<0, 0>> \o b(12) \o b(13)

\* A.JPG, a file of one byte in cluster 3
ShortA == ShortEntry(<<65, 32, 32, 32, 32, 32, 32, 32, 74, 80, 71>>, 32, 0, 33, 3, 1)

\* DCIM, a directory in cluster 6
ShortDcim == ShortEntry(<<68, 67, 73, 77, 32, 32, 32, 32, 32, 32, 32>>, 16, 0, 33, 6, 0)

\* a file whose name begins with 0x05, which stands for 0xE5
ShortKanji == ShortEntry(<<5, 66, 32, 32, 32, 32, 32, 32, 32, 32, 32>>, 32, 0, 33, 4, 2)

\* abcdefghijklm
FirstUnits == <<97, 98, 99, 100, 101, 102, 103, 104, 105, 106, 107, 108, 109>>

\* no, a NUL and the padding
LastUnits == <<110, 111, 0, 65535, 65535, 65535, 65535, 65535, 65535, 65535, 65535, 65535, 65535>>

DirectoryEntries ==
    { [kind |-> "short", bytes |-> ShortA, name |-> <<65, 46, 74, 80, 71>>,
       isDirectory |-> FALSE, clusterNumber |-> 3, size |-> 1],
      [kind |-> "short", bytes |-> ShortDcim, name |-> <<68, 67, 73, 77>>,
       isDirectory |-> TRUE, clusterNumber |-> 6, size |-> 0],
      [kind |-> "short", bytes |-> ShortKanji, name |-> <<101, 66>>,
       isDirectory |-> FALSE, clusterNumber |-> 4, size |-> 2],
      [kind |-> "lfn", bytes |-> LfnEntry(1, FirstUnits), order |-> 1, text |-> FirstUnits],
      [kind |-> "lfn", bytes |-> LfnEntry(66, LastUnits), order |-> 2, text |-> <<110, 111>>],
      [kind |-> "lfn", bytes |-> LfnEntry(64, LastUnits), order |-> 0, text |-> <<110, 111>>],
      [kind |-> "free", bytes |-> [ShortA EXCEPT ![1] = 229]],
      [kind |-> "free", bytes |-> LfnEntry(229, FirstUnits)],
      [kind |-> "end", bytes |-> [ShortA EXCEPT ![1] = 0]] }

RECURSIVE BytesOf(_)
BytesOf(entries) ==
    IF entries = <<>> THEN <<>> ELSE Head(entries).bytes \o BytesOf(Tail(entries))

Clusters == UNION {[1 .. n -> DirectoryEntries] : n \in 0 .. MaxEntries}

\* disk is the cluster that is read; folder.children is the listing
InitCluster ==
    /\ CardInit
    /\ disk \in {[cluster |-> cluster] : cluster \in Clusters}
    /\ volume = NoVolume
    /\ initialised = "pending"
    /\ waiters = <<>>
    /\ tasks = <<>>

\* listCluster after its reads
ListCluster ==
    /\ folder.changes = 0
    /\ folder' = [folder EXCEPT !.changes = 1,
                                !.children = ParseEntries(BytesOf(disk.cluster), 0, <<>>)]
    /\ UNCHANGED <<coreVars, discVars, directory, watcher, clock>>

NextListing == ListCluster

SpecCluster == InitCluster /\ [][NextListing]_vars

\* the entries before the one that ends the directory
Live(cluster) ==
    LET ends == {i \in DOMAIN cluster : cluster[i].kind = "end"}
    IN  IF ends = {} THEN cluster
        ELSE SubSeq(cluster, 1, (CHOOSE i \in ends : \A j \in ends : i <= j) - 1)

\* the positions of the short entries among the live ones, in order
ShortsOf(cluster) ==
    LET live == Live(cluster)
        at == {i \in DOMAIN live : live[i].kind = "short"}
    IN  [k \in 1 .. Cardinality(at) |->
            CHOOSE i \in at : Cardinality({j \in at : j < i}) = k - 1]

\* the fragments between the short entry at position i and the short entry
\* before it, in disk order
FragmentsBefore(cluster, i) ==
    LET live == Live(cluster)
        before == {j \in 1 .. (i - 1) : live[j].kind = "short"}
        from == IF before = {} THEN 0 ELSE CHOOSE j \in before : \A k \in before : k <= j
    IN  SelectSeq(SubSeq(live, from + 1, i - 1), LAMBDA e : e.kind = "lfn")

RECURSIVE TextReversed(_)
TextReversed(fragments) ==
    IF fragments = <<>> THEN <<>> ELSE TextReversed(Tail(fragments)) \o Head(fragments).text

RECURSIVE TextInOrder(_)
TextInOrder(fragments) ==
    IF fragments = <<>> THEN <<>> ELSE Head(fragments).text \o TextInOrder(Tail(fragments))

\* the texts of the fragments, those of a larger order first
RECURSIVE TextByOrder(_, _)
TextByOrder(fragments, order) ==
    IF order < 0 THEN <<>>
    ELSE TextInOrder(SelectSeq(fragments, LAMBDA e : e.order = order))
             \o TextByOrder(fragments, order - 1)

\* the listing is made: the cluster has been parsed
Listed == folder.changes = 1

\* the item returned for the k-th short entry has the name given
NamedBy(NameOf(_, _)) ==
    Listed =>
        LET live == Live(disk.cluster)
            shorts == ShortsOf(disk.cluster)
        IN  \A k \in DOMAIN shorts :
                k \in DOMAIN folder.children =>
                    folder.children[k].name
                        = NameOf(live[shorts[k]], FragmentsBefore(disk.cluster, shorts[k]))

HigherOrderFirst(short, fragments) ==
    IF fragments = <<>> THEN short.name ELSE TextByOrder(fragments, 31)

NearestFirst(short, fragments) ==
    LET text == TextReversed(SelectSeq(fragments, LAMBDA e : e.order > 0))
    IN  IF text = <<>> THEN short.name ELSE text

OneItemPerLiveShortEntry ==
    Listed =>
        LET live == Live(disk.cluster)
            shorts == ShortsOf(disk.cluster)
        IN  /\ Len(folder.children) = Len(shorts)
            /\ \A k \in DOMAIN shorts :
                   /\ folder.children[k].size = live[shorts[k]].size
                   /\ folder.children[k].clusterNumber = live[shorts[k]].clusterNumber
                   /\ folder.children[k].isDirectory = live[shorts[k]].isDirectory

\* a cluster with a free entry, a short entry, the end and a short entry
\* after the end has been parsed
ParsedUpToTheEnd ==
    /\ Listed
    /\ Len(disk.cluster) = 4
    /\ disk.cluster[1].kind = "free"
    /\ disk.cluster[2].kind = "short"
    /\ disk.cluster[3].kind = "end"
    /\ disk.cluster[4].kind = "short"
    /\ Len(folder.children) = 1

\* the fragments that stand directly before the short entry at position i,
\* with no other entry between them and it, in disk order
ImmediateFragments(cluster, i) ==
    LET live == Live(cluster)
        others == {j \in 1 .. (i - 1) : live[j].kind # "lfn"}
        from == IF others = {} THEN 0 ELSE CHOOSE j \in others : \A k \in others : k <= j
    IN  SubSeq(live, from + 1, i - 1)

\* C39: the long name of a returned entry comes only from the fragments that
\* stand directly before its short entry: fragments followed by a free
\* entry never name a later short entry, which then has its 8.3 name
LongNameOnlyFromOwnFragments ==
    Listed =>
        LET live == Live(disk.cluster)
            shorts == ShortsOf(disk.cluster)
        IN  \A k \in DOMAIN shorts :
                k \in DOMAIN folder.children =>
                    folder.children[k].name
                        = NearestFirst(live[shorts[k]],
                                       ImmediateFragments(disk.cluster, shorts[k]))

\* the same for the clusters in which no free entry stands between a
\* fragment and the short entry after it
LongNameOnlyFromOwnFragmentsUnlessFreed ==
    Listed =>
        LET live == Live(disk.cluster)
            shorts == ShortsOf(disk.cluster)
        IN  \A k \in DOMAIN shorts :
                (/\ k \in DOMAIN folder.children
                 /\ ImmediateFragments(disk.cluster, shorts[k])
                        = FragmentsBefore(disk.cluster, shorts[k])) =>
                    folder.children[k].name
                        = NearestFirst(live[shorts[k]],
                                       ImmediateFragments(disk.cluster, shorts[k]))

(***************************************************************************)
(* SpecPath: FAT32Adapter.listFolder with a string path, on an initialised *)
(* volume.  disk gives, for each directory cluster, what listCluster       *)
(* returns for it; a listCluster call returns that or fails when a read of *)
(* the card times out.  The task records the clusters it has asked for.    *)
(***************************************************************************)
MaxSegments == 3

\* str.split(sep) for a separator of one code unit
RECURSIVE Split(_, _)
Split(str, sep) ==
    LET at == {i \in DOMAIN str : str[i] = sep}
    IN  IF at = {} THEN <<str>>
        ELSE LET i == CHOOSE i \in at : \A j \in at : i <= j
             IN  <<SubSeq(str, 1, i - 1)>> \o Split(SubSeq(str, i + 1, Len(str)), sep)

Item(name, isDirectory, clusterNumber) ==
    [name |-> name, isDirectory |-> isDirectory, clusterNumber |-> clusterNumber]

\* the root holds the file A, the directories D and p and the file X; D holds
\* the file B and the directory S; S holds the file C; p holds the file E.
\* With fileFirst the root also holds a file S before a directory S.
TreeOf(fileFirst) ==
    [rootCluster |-> 2,
     listing |-> [c \in 2 .. 8 |->
        IF c = 2 THEN <<Item(<<65>>, FALSE, 3), Item(<<68>>, TRUE, 6),
                        Item(<<112>>, TRUE, 5), Item(<<88>>, FALSE, 4)>>
                      \o (IF fileFirst
                          THEN <<Item(<<83>>, FALSE, 4), Item(<<83>>, TRUE, 8)>>
                          ELSE <<>>)
        ELSE IF c = 6 THEN <<Item(<<66>>, FALSE, 3), Item(<<83>>, TRUE, 7)>>
        ELSE IF c = 7 THEN <<Item(<<67>>, FALSE, 3)>>
        ELSE IF c = 5 THEN <<Item(<<69>>, FALSE, 3)>>
        ELSE <<>>]]

\* "", D, d, S, p, P, X and N, which no entry has
Segments == {<<>>, <<68>>, <<100>>, <<83>>, <<112>>, <<80>>, <<88>>, <<78>>}

RECURSIVE Join(_)
Join(segments) ==
    IF Len(segments) = 1 THEN segments[1]
    ELSE segments[1] \o <<47>> \o Join(Tail(segments))

Paths == {Join(segments) : segments \in UNION {[1 .. n -> Segments] : n \in 1 .. MaxSegments}}

InitPath ==
    /\ CardInit
    /\ disk \in {TreeOf(fileFirst) : fileFirst \in BOOLEAN}
    /\ volume = NoVolume
    /\ initialised = "fulfilled"
    /\ waiters = <<>>
    /\ tasks = <<>>

\* files = await this.listCluster(cluster), paths still to go
AwaitListCluster(tk, cluster, paths) ==
    tasks' = Put(tasks, 1, [tk EXCEPT !.pc = "listCluster", !.cluster = cluster,
                                      !.paths = paths, !.listed = Append(@, cluster)])

\* files.find(file => file.name === folderName && file.isDirectory), or 0
FindFolder(files, folderName) ==
    LET found == {i \in DOMAIN files : files[i].name = folderName /\ files[i].isDirectory}
    IN  IF found = {} THEN 0 ELSE CHOOSE i \in found : \A j \in found : i <= j

\* while(paths.length > 0), up to the next await, return or throw
RECURSIVE WhilePaths(_, _, _)
WhilePaths(tk, paths, files) ==
    IF paths = <<>>
    THEN tasks' = Put(tasks, 1, [tk EXCEPT !.pc = "done", !.paths = paths, !.result = files])
    ELSE LET folderName == Head(paths)
         IN  IF folderName = <<>> THEN WhilePaths(tk, Tail(paths), files)
             ELSE LET i == FindFolder(files, folderName)
                  IN  IF i = 0
                      THEN tasks' = Put(tasks, 1, [tk EXCEPT !.pc = "failed",
                                                             !.paths = Tail(paths),
                                                             !.error = "Error"])
                      ELSE AwaitListCluster(tk, files[i].clusterNumber, Tail(paths))

pathVars == <<transferId, dataPromises, reads, timers, sent, microtasks, lastMsg,
              disk, volume, initialised, waiters>>

\* listFolder(path) up to the await in listRoot
ListFolder(path) ==
    /\ tasks = <<>>
    /\ AwaitListCluster([op |-> "listFolder", path |-> path, pc |-> "start", cluster |-> 0,
                         paths |-> <<>>, listed |-> <<>>, result |-> <<>>, error |-> ""],
                        disk.rootCluster, Split(ToUpperCase(path), 47))
    /\ UNCHANGED <<pathVars, appVars>>

\* listCluster returns its listing and the loop goes on
ListClusterReturns ==
    /\ 1 \in DOMAIN tasks
    /\ tasks[1].pc = "listCluster"
    /\ WhilePaths(tasks[1], tasks[1].paths, disk.listing[tasks[1].cluster])
    /\ UNCHANGED <<pathVars, appVars>>

\* a read of listCluster times out
ListClusterFails ==
    /\ 1 \in DOMAIN tasks
    /\ tasks[1].pc = "listCluster"
    /\ tasks' = Put(tasks, 1, [tasks[1] EXCEPT !.pc = "failed", !.error = "TimeoutError"])
    /\ UNCHANGED <<pathVars, appVars>>

NextPath ==
    \/ \E path \in Paths : ListFolder(path)
    \/ ListClusterReturns
    \/ ListClusterFails

SpecPath == InitPath /\ [][NextPath]_vars

\* the non-empty segments of a path
NonEmptySegments(path) == SelectSeq(Split(path, 47), LAMBDA segment : segment # <<>>)

\* the directories reached from cluster by descending, for each segment,
\* into the first directory entry whose name is the segment but for the
\* case of its ASCII letters; found is whether every segment had one
RECURSIVE Descent(_, _)
Descent(segments, cluster) ==
    IF segments = <<>> THEN [found |-> TRUE, reached |-> <<cluster>>]
    ELSE LET files == disk.listing[cluster]
             into == {i \in DOMAIN files :
                          /\ files[i].isDirectory
                          /\ AsciiUpper(files[i].name) = AsciiUpper(Head(segments))}
         IN  IF into = {} THEN [found |-> FALSE, reached |-> <<cluster>>]
             ELSE LET i == CHOOSE i \in into : \A j \in into : i <= j
                      rest == Descent(Tail(segments), files[i].clusterNumber)
                  IN  [found |-> rest.found, reached |-> <<cluster>> \o rest.reached]

\* listFolder has returned or thrown, and no read timed out
PathSettled ==
    /\ 1 \in DOMAIN tasks
    /\ tasks[1].pc \in {"done", "failed"}
    /\ tasks[1].error # "TimeoutError"

\* C29: listFolder(path) lists the root, descends for each non-empty segment
\* into the directory entry whose name matches it, a file of that name not
\* counting, and returns the listing of the last directory; when a segment
\* has no such entry it fails with DirectoryNotFound and lists nothing more
DescendsOrDirectoryNotFound ==
    PathSettled =>
        LET d == Descent(NonEmptySegments(tasks[1].path), disk.rootCluster)
        IN  /\ tasks[1].listed = d.reached
            /\ IF d.found
               THEN /\ tasks[1].pc = "done"
                    /\ tasks[1].result = disk.listing[d.reached[Len(d.reached)]]
               ELSE /\ tasks[1].pc = "failed"
                    /\ tasks[1].error = "DirectoryNotFound"

\* the same for the paths that descend only into directories whose names
\* have no lower-case letter, whatever the failure is called
DescendsThroughUpperCaseNames ==
    PathSettled =>
        LET d == Descent(NonEmptySegments(tasks[1].path), disk.rootCluster)
        IN  (\A k \in DOMAIN d.reached : d.reached[k] # 5) =>
                /\ tasks[1].listed = d.reached
                /\ IF d.found
                   THEN /\ tasks[1].pc = "done"
                        /\ tasks[1].result = disk.listing[d.reached[Len(d.reached)]]
                   ELSE tasks[1].pc = "failed"

(***************************************************************************)
(* SpecTransport: the UdpServer and its subscribers.  The handlers         *)
(* subscribed for all are those of NetworkDiscovery instances and the      *)
(* handlers subscribed for an ip are those of Cards; a handler is the      *)
(* number of its subscription.  The socket emits a message only while it   *)
(* is open.  last is the last datagram and the handlers invoked for it, in *)
(* order, with the subscribers as they were when it arrived.               *)
(***************************************************************************)
MaxHandlers == 3
MaxDatagrams == 2

TransportInit ==
    [subscribers |-> <<>>, allSubscribers |-> <<>>, open |-> TRUE,
     subscriptions |-> 0, datagrams |-> 0, last |-> <<>>]

InitTransport ==
    /\ CardFieldsInit
    /\ udpServer = TransportInit
    /\ discovery = DiscoveryInit
    /\ cards = <<>>
    /\ folder = FolderInit
    /\ directory = DirectoryInit
    /\ watcher = WatcherInit
    /\ clock = 0
    /\ disk = <<>>
    /\ volume = NoVolume
    /\ initialised = "pending"
    /\ waiters = <<>>
    /\ tasks = <<>>

SubscribeForAll ==
    /\ udpServer.subscriptions < MaxHandlers
    /\ udpServer' = [udpServer EXCEPT !.subscriptions = @ + 1,
                                      !.allSubscribers = Append(@, udpServer.subscriptions + 1)]
    /\ UNCHANGED <<coreVars, discovery, cards, watchVars>>

SubscribeForCard(ip) ==
    /\ udpServer.subscriptions < MaxHandlers
    /\ udpServer' = [udpServer EXCEPT !.subscriptions = @ + 1,
                                      !.subscribers = Put(@, ip, udpServer.subscriptions + 1)]
    /\ UNCHANGED <<coreVars, discovery, cards, watchVars>>

UnsubscribeForCard(ip) ==
    /\ ip \in DOMAIN udpServer.subscribers
    /\ udpServer' = [udpServer EXCEPT !.subscribers = Remove(@, ip)]
    /\ UNCHANGED <<coreVars, discovery, cards, watchVars>>

\* UdpServer.destroy
TransportDestroy ==
    /\ udpServer.open
    /\ udpServer' = [udpServer EXCEPT !.open = FALSE, !.subscribers = <<>>,
                                      !.allSubscribers = <<>>]
    /\ UNCHANGED <<coreVars, discovery, cards, watchVars>>

\* the handler of a NetworkDiscovery throws on a card info cut short
HandlerThrows(msg) == PassesChecks(msg) /\ ParseThrows(msg)

\* allSubscribers.forEach(callback => callback(msg, rinfo)): the callbacks
\* invoked, up to the first that throws
ForEach(callbacks, msg) ==
    IF callbacks # <<>> /\ HandlerThrows(msg) THEN <<Head(callbacks)>> ELSE callbacks

\* the listener of the socket's message event
Message(msg, address) ==
    /\ udpServer.open
    /\ udpServer.datagrams < MaxDatagrams
    /\ LET all == udpServer.allSubscribers
           invoked == ForEach(all, msg)
           threw == all # <<>> /\ HandlerThrows(msg)
           peer == IF address \in DOMAIN udpServer.subscribers
                   THEN <<udpServer.subscribers[address]>> ELSE <<>>
       IN  udpServer' = [udpServer EXCEPT
               !.datagrams = @ + 1,
               !.last = [msg |-> msg, address |-> address, open |-> udpServer.open,
                         allSubscribers |-> all, peer |-> peer, threw |-> threw,
                         invoked |-> IF threw THEN invoked ELSE invoked \o peer]]
    /\ UNCHANGED <<coreVars, discovery, cards, watchVars>>

NextTransport ==
    \/ SubscribeForAll
    \/ \E ip \in Ips : SubscribeForCard(ip)
    \/ \E ip \in Ips : UnsubscribeForCard(ip)
    \/ TransportDestroy
    \/ \E msg \in InboundDatagrams, address \in Ips : Message(msg, address)

SpecTransport == InitTransport /\ [][NextTransport]_vars

\* C30: for each datagram every handler subscribed for all is invoked, in
\* the order of subscription, and then the handler subscribed for the ip it
\* came from, if any, each once; and none after destroy()
AllThenPeerOnce ==
    udpServer.last # <<>> =>
        /\ udpServer.last.open
        /\ udpServer.last.invoked = udpServer.last.allSubscribers \o udpServer.last.peer

\* the same for the datagrams on which no handler throws
AllThenPeerOnceUnlessThrown ==
    (udpServer.last # <<>> /\ ~udpServer.last.threw) =>
        /\ udpServer.last.open
        /\ udpServer.last.invoked = udpServer.last.allSubscribers \o udpServer.last.peer

\* a response has set the outcome of a read once and for all: what
\* completed it and what it returned do not change afterwards
FirstResponseStays ==
    \A t \in DOMAIN reads :
        reads[t].settled # <<>> =>
            /\ reads'[t].by = reads[t].by
            /\ reads[t].pc = "returned" =>
                   reads'[t].pc = "returned" /\ reads'[t].result = reads[t].result

\* what a returned read returned is the slice of the datagram that completed it
ReturnsTheSlice ==
    \A t \in DOMAIN reads :
        reads[t].pc = "returned" =>
            /\ reads[t].by.tid = t
            /\ reads[t].result = reads[t].by.data
            /\ Len(reads[t].result)
                   = Min(reads[t].by.msg.nBytes, Len(reads[t].by.msg.data))

\* C40 as stated: the read returns the payload of the first datagram with
\* its transfer ID, later ones add nothing, and the returned length is the
\* n_bytes of that datagram
ReturnsNBytesOfFirstResponse ==
    /\ [](ReturnsTheSlice
            /\ \A t \in DOMAIN reads :
                   reads[t].pc = "returned" => Len(reads[t].result) = reads[t].by.msg.nBytes)
    /\ [][FirstResponseStays]_vars

\* C40: the read returns msg.slice(24, 24 + n_bytes) of the first datagram
\* with its transfer ID that finds its slot, that is n_bytes bytes or, when
\* the datagram holds fewer after byte 24, those it holds; later datagrams
\* with the same transfer ID add nothing, and the length does not depend on
\* the count of sectors asked for
ReturnsSliceOfFirstResponse ==
    /\ []ReturnsTheSlice
    /\ [][FirstResponseStays]_vars

\* a read of 14 sectors has returned one byte, and a datagram that came
\* after its return found no slot
ShortReadThenUnknown ==
    /\ lastMsg = [outcome |-> "unknown", late |-> FALSE]
    /\ \E t \in DOMAIN reads :
           /\ reads[t].pc = "returned"
           /\ reads[t].count = 14
           /\ Len(reads[t].result) = 1

(***************************************************************************)
(* SpecMalformed: the Card of Spec on a network that also delivers, from   *)
(* the card's ip, datagrams with another header or another direction.      *)
(* Card.onMessage reads the command byte; incomingReadData reads the       *)
(* fields from byte 8 on.  Neither reads the header or the direction.      *)
(***************************************************************************)
AnyDatagrams ==
    [header : {"FC1307", "FC1308"}, direction : {1, 2}, cmd : {1, 4},
     tid : InitialTransferId .. InitialTransferId + MaxReads,
     nBytes : {MaxPayload}, data : {[i \in 1 .. MaxPayload |-> 0]}]

ReceiveAny == \E d \in AnyDatagrams : OnMessage(d)

NextMalformed == UserRead \/ TimeoutFires \/ ReceiveAny \/ ResumeRead

SpecMalformed == Init /\ [][NextMalformed]_vars

\* C32: a datagram whose header is not FC1307, whose direction is not 2 or
\* whose command is not 4 completes no pending read, even when it carries
\* the transfer ID of one: every read completed by a response was completed
\* by a datagram with that header, direction and command
MalformedCompletesNothing ==
    \A t \in DOMAIN reads :
        reads[t].settled = <<"response">> =>
            /\ reads[t].by.msg.header = "FC1307"
            /\ reads[t].by.msg.direction = 2
            /\ reads[t].by.msg.cmd = 4

\* a datagram with another command, or with a transfer ID that has no slot,
\* leaves the slots, the reads and the next transfer ID as they were
OtherCommandOrUnknownTidDropped ==
    [][(lastMsg' # lastMsg /\ lastMsg'.outcome \in {"ignored", "unknown"}) =>
           UNCHANGED <<dataPromises, reads, transferId, microtasks>>]_vars

(***************************************************************************)
(* SpecRouting: several Cards on one UdpServer.  Each Card has its own     *)
(* transferId and dataPromises and subscribes its onMessage for its ip in  *)
(* its constructor.  A delivery is the message listener of the socket, the *)
(* handler it calls and the promise job that follows; completed is the     *)
(* history of the reads of a Card that returned.                           *)
(***************************************************************************)
MaxCardReads == 2

\* the subscriber is kept if the ip has one
KeptIfSubscribed(subscribers, ip, callback) ==
    IF ip \in DOMAIN subscribers THEN subscribers ELSE Put(subscribers, ip, callback)

\* this.subscribers[ip] = callback
Subscribed(subscribers, ip, callback) == Put(subscribers, ip, callback)

RoutedCard(ip) ==
    [ip |-> ip, transferId |-> InitialTransferId, dataPromises |-> <<>>, completed |-> <<>>]

InitRouting ==
    /\ CardFieldsInit
    /\ udpServer = TransportInit
    /\ discovery = DiscoveryInit
    /\ cards = <<>>
    /\ folder = FolderInit
    /\ directory = DirectoryInit
    /\ watcher = WatcherInit
    /\ clock = 0
    /\ disk = <<>>
    /\ volume = NoVolume
    /\ initialised = "pending"
    /\ waiters = <<>>
    /\ tasks = <<>>

\* new Card(ip, ...)
CreateCard(ip) ==
    /\ Len(cards) < MaxCards
    /\ cards' = Append(cards, RoutedCard(ip))
    /\ udpServer' = [udpServer EXCEPT
                        !.subscribers = Subscribed(@, ip, Len(cards) + 1)]
    /\ UNCHANGED <<coreVars, discovery, watchVars>>

\* readBinaryData of Card c, up to its await
CardReads(c) ==
    /\ cards[c].transferId < InitialTransferId + MaxCardReads
    /\ cards' = [cards EXCEPT
                    ![c].transferId = NextTransferId(@),
                    ![c].dataPromises = Put(@, cards[c].transferId, ResolvablePromise)]
    /\ UNCHANGED <<coreVars, udpServer, discovery, watchVars>>

\* the READ_TIMEOUT timer of a read of Card c
CardTimeout(c, t) ==
    /\ t \in DOMAIN cards[c].dataPromises
    /\ cards[c].dataPromises[t].state = "pending"
    /\ cards' = [cards EXCEPT ![c].dataPromises[t] = Reject(@, NoRequest)]
    /\ UNCHANGED <<coreVars, udpServer, discovery, watchVars>>

\* Card.onMessage of a Card for a datagram from address, and the promise
\* job of the read it completes
CardReceives(c, card, d, address) ==
    IF d.cmd = 4 /\ SlotOf(d.tid) \in DOMAIN card.dataPromises
                 /\ card.dataPromises[SlotOf(d.tid)].state = "pending"
    THEN [card EXCEPT
             !.dataPromises = Remove(@, SlotOf(d.tid)),
             !.completed = Append(@, [tid |-> d.tid, address |-> address,
                                      value |-> Resolve(card.dataPromises[SlotOf(d.tid)],
                                                        StorageData(d)).value,
                                      created |-> Len(cards), card |-> c])]
    ELSE card

RoutedDatagrams ==
    [cmd : {1, 4}, tid : InitialTransferId .. InitialTransferId + MaxCardReads - 1,
     nBytes : {1}, data : {<<0>>}]

\* the message listener: handleIncommingMessage with no handler for all
Deliver(d, address) ==
    /\ udpServer.open
    /\ address \in DOMAIN udpServer.subscribers
    /\ LET c == udpServer.subscribers[address]
       IN  cards' = [cards EXCEPT ![c] = CardReceives(c, @, d, address)]
    /\ UNCHANGED <<coreVars, udpServer, discovery, watchVars>>

NextRouting ==
    \/ \E ip \in Ips : CreateCard(ip)
    \/ \E c \in DOMAIN cards : CardReads(c)
    \/ \E c \in DOMAIN cards, t \in InitialTransferId .. InitialTransferId + MaxCardReads :
           CardTimeout(c, t)
    \/ \E d \in RoutedDatagrams, address \in Ips : Deliver(d, address)
    \/ \E ip \in Ips : UnsubscribeForCard(ip)
    \/ TransportDestroy

SpecRouting == InitRouting /\ [][NextRouting]_vars

\* C31: a datagram completes a read of a Card only if it came from the ip of
\* that Card, and only if no Card had been created for that ip after it;
\* the handler of an ip is the last Card created for it
RoutedBySourceIp ==
    /\ \A c \in DOMAIN cards :
           \A k \in DOMAIN cards[c].completed :
               LET done == cards[c].completed[k]
               IN  /\ done.address = cards[c].ip
                   /\ \A i \in 1 .. done.created : cards[i].ip = cards[c].ip => i <= c
    /\ \A ip \in DOMAIN udpServer.subscribers :
           LET c == udpServer.subscribers[ip]
           IN  /\ cards[c].ip = ip
               /\ \A i \in DOMAIN cards : cards[i].ip = ip => i <= c

\* two Cards of one ip awaited a read with the same transfer ID; the
\* datagram completed that of the second and the first still awaits
SecondCardReceived ==
    /\ Len(cards) = 2
    /\ cards[1].ip = cards[2].ip
    /\ InitialTransferId \in DOMAIN cards[1].dataPromises
    /\ cards[1].dataPromises[InitialTransferId].state = "pending"
    /\ cards[1].completed = <<>>
    /\ Len(cards[2].completed) = 1
    /\ cards[2].completed[1].tid = InitialTransferId

====
